---- MODULE Spec2Model ----
(***************************************************************************)
(* A model of the tailoring pipeline of ResumeTailorPlatform               *)
(* (src/tailoring/services.py, src/tailoring/tasks.py).                    *)
(*                                                                         *)
(* The module holds several specifications over one set of variables:      *)
(*   SpecPlan  - AgentKitTailoringService._plan_sections                   *)
(*   SpecNorm  - AgentKitTailoringService.normalize_parameters             *)
(*   SpecJson  - AgentKitTailoringService._extract_response_json           *)
(*   Spec      - run_workflow / _generate_resume_package, one action per   *)
(*               collaborator exchange, and the task's handling of the     *)
(*               outcome                                                   *)
(*   SpecTask  - process_tailoring_session and the views that rescue,      *)
(*               complete or fail a session, one action per database access *)
(*   SpecQuota - check_and_increment_tokens and User.record_usage          *)
(* and one specification for each helper checked on its own.               *)
(* Each specification leaves the variables of the others at their idle     *)
(* values.                                                                 *)
(***************************************************************************)
EXTENDS Integers, Sequences, FiniteSets, TLC

VARIABLES
    \* _plan_sections: its two arguments and its return value
    selected_snippets, layout, plan,
    \* normalize_parameters: the caller's parameters, the set the task
    \* normalizes from them, and the set run_workflow normalizes from that
    parameters, normalized, renormalized,
    \* _call_openai_json: the collaborator's reply and what the call yields
    response, call_result,
    \* run_workflow under process_tailoring_session: the request, the point
    \* reached, the locals of _generate_resume_package, the round trips made
    \* so far, what run_workflow yielded and the saved session
    request, pc, sections, flat_bullets, bullet_details, sections_to_fix,
    flagged, token_usage_totals, exchanges, outcome, session,
    \* a call of one of the pure helpers (ATS score, bullet validator,
    \* requirement extraction, snippet scoring, bucket inference): its
    \* arguments and the value it returned
    helper_args, helper_result,
    \* the database and its clients: the session's row, the user's row, the
    \* threads working on them (task invocations, view requests, callers of
    \* the quota check) and the clock
    db_session, db_user, threads, now

planVars == <<selected_snippets, layout, plan>>

normVars == <<parameters, normalized, renormalized>>

jsonVars == <<response, call_result>>

pipeVars == <<request, pc, sections, flat_bullets, bullet_details, sections_to_fix,
              flagged, token_usage_totals, exchanges, outcome, session>>

helperVars == <<helper_args, helper_result>>

taskVars == <<db_session, db_user, threads, now>>

vars == <<selected_snippets, layout, plan, parameters, normalized, renormalized,
          response, call_result,
          request, pc, sections, flat_bullets, bullet_details, sections_to_fix,
          flagged, token_usage_totals, exchanges, outcome, session,
          helper_args, helper_result,
          db_session, db_user, threads, now>>

(***************************************************************************)
(* Generic helpers on sequences.                                           *)
(***************************************************************************)
Range(s) == {s[i] : i \in 1..Len(s)}

SeqsUpTo(S, n) == UNION {[1..k -> S] : k \in 0..n}

NonEmptySeqsUpTo(S, n) == UNION {[1..k -> S] : k \in 1..n}

RECURSIVE Concat(_)
Concat(ss) == IF ss = <<>> THEN <<>> ELSE Head(ss) \o Concat(Tail(ss))

(***************************************************************************)
(* SectionPlanner: _plan_sections (services.py 1674-1755).                 *)
(*                                                                         *)
(* selected_snippets is a Python dict, whose iteration order is insertion  *)
(* order: it is modelled as a sequence of [bucket, snippets] pairs with    *)
(* distinct bucket names; a snippet is represented by its snippet_id.      *)
(* _collect_experience_snippets only stores non-empty lists                *)
(* (services.py 1578-1579), and snippet ids are caller-supplied, so one id *)
(* may occur in two buckets.                                               *)
(***************************************************************************)
MaxLayout == 3
MaxBuckets == 2
MaxSnippetsInBucket == 2

BucketNames == {"Leadership", "Projects"}
SectionNames == {"Leadership", "Projects", "Awards"}
SnippetIds == {"s1", "s2"}

Layouts == SeqsUpTo(SectionNames, MaxLayout)

BucketOrders ==
    {o \in SeqsUpTo(BucketNames, MaxBuckets) :
        \A i, j \in 1..Len(o) : i # j => o[i] # o[j]}

SelectedSnippetMaps ==
    UNION {
        {[i \in 1..Len(o) |-> [bucket |-> o[i], snippets |-> c[i]]] :
            c \in [1..Len(o) -> NonEmptySeqsUpTo(SnippetIds, MaxSnippetsInBucket)]}
        : o \in BucketOrders}

\* dict.get(name): the snippet list of the bucket, <<>> standing for None
\* (both are falsy in the tests "if not snippets").
BucketGet(sel, name) ==
    IF \E i \in 1..Len(sel) : sel[i].bucket = name
    THEN sel[CHOOSE i \in 1..Len(sel) : sel[i].bucket = name].snippets
    ELSE <<>>

\* services.py 1704-1707
all_snippet_ids(sel) == Concat([i \in 1..Len(sel) |-> sel[i].snippets])

\* services.py 1734-1739: the ids not seen before, each kept once
RECURSIVE DedupIds(_, _)
DedupIds(ids, seen) ==
    IF ids = <<>> THEN <<>>
    ELSE IF Head(ids) \in seen THEN DedupIds(Tail(ids), seen)
    ELSE <<Head(ids)>> \o DedupIds(Tail(ids), seen \cup {Head(ids)})

FullPoolEntry(sel, section_name) ==
    [name |-> section_name, snippet_ids |-> all_snippet_ids(sel), use_full_pool |-> TRUE]

\* A plausible slip: a section without dedicated snippets is skipped instead
\* of being given the full pool.
_plan_step_dropping(sel, section_name, st) ==
    LET exact == BucketGet(sel, section_name)
        fallback == exact = <<>> /\ st.bucket_index < Len(sel)
        snippets == IF fallback THEN sel[st.bucket_index + 1].snippets ELSE exact
        bucket_index == IF fallback THEN st.bucket_index + 1 ELSE st.bucket_index
        snippet_ids == DedupIds(snippets, st.seen_ids)
    IN  IF snippet_ids = <<>>
        THEN [st EXCEPT !.bucket_index = bucket_index]
        ELSE [plan |-> Append(st.plan, [name |-> section_name,
                                        snippet_ids |-> snippet_ids,
                                        use_full_pool |-> FALSE]),
              seen_ids |-> st.seen_ids \cup Range(snippet_ids),
              bucket_index |-> bucket_index]

\* A plausible slip: a section without a bucket of its own name goes straight
\* to the full pool, the next unused bucket being left alone.
_plan_step_without_fallback(sel, section_name, st) ==
    LET snippets == BucketGet(sel, section_name)
        snippet_ids == DedupIds(snippets, st.seen_ids)
    IN  IF snippet_ids = <<>>
        THEN [plan |-> Append(st.plan, FullPoolEntry(sel, section_name)),
              seen_ids |-> st.seen_ids,
              bucket_index |-> st.bucket_index]
        ELSE [plan |-> Append(st.plan, [name |-> section_name,
                                        snippet_ids |-> snippet_ids,
                                        use_full_pool |-> FALSE]),
              seen_ids |-> st.seen_ids \cup Range(snippet_ids),
              bucket_index |-> st.bucket_index]

\* One iteration of the loop of services.py 1709-1753 on the loop state
\* st = [plan, seen_ids, bucket_index].
_plan_step(sel, section_name, st) ==
    LET exact == BucketGet(sel, section_name)
        fallback == exact = <<>> /\ st.bucket_index < Len(sel)
        snippets == IF fallback THEN sel[st.bucket_index + 1].snippets ELSE exact
        bucket_index == IF fallback THEN st.bucket_index + 1 ELSE st.bucket_index
        snippet_ids == DedupIds(snippets, st.seen_ids)
    IN  IF snippets = <<>>
        THEN [plan |-> Append(st.plan, FullPoolEntry(sel, section_name)),
              seen_ids |-> st.seen_ids,
              bucket_index |-> bucket_index]
        ELSE IF snippet_ids # <<>>
        THEN [plan |-> Append(st.plan, [name |-> section_name,
                                        snippet_ids |-> snippet_ids,
                                        use_full_pool |-> FALSE]),
              seen_ids |-> st.seen_ids \cup Range(snippet_ids),
              bucket_index |-> bucket_index]
        ELSE [plan |-> Append(st.plan, FullPoolEntry(sel, section_name)),
              seen_ids |-> st.seen_ids,
              bucket_index |-> bucket_index]

RECURSIVE _plan_loop(_, _, _)
_plan_loop(sel, lay, st) ==
    IF lay = <<>> THEN st.plan
    ELSE _plan_loop(sel, Tail(lay), _plan_step(sel, Head(lay), st))

\* services.py 1691-1755. An entry without the use_full_pool key is written
\* with use_full_pool = FALSE.
_plan_sections(sel, lay) ==
    IF lay = <<>>
    THEN [i \in 1..Len(sel) |-> [name |-> sel[i].bucket,
                                 snippet_ids |-> sel[i].snippets,
                                 use_full_pool |-> FALSE]]
    ELSE _plan_loop(sel, lay, [plan |-> <<>>, seen_ids |-> {}, bucket_index |-> 0])


(***************************************************************************)
(* Parameter normalization: normalize_parameters (services.py 1225-1335).  *)
(*                                                                         *)
(* A string is a sequence of characters; "," stands for the separators of  *)
(* the pattern [\n,]+ and " " for white space.  A parameter value is a     *)
(* tagged record: [t |-> "absent"] (the key is not in the dict), "none"    *)
(* (None), "str" (a string), "list" (a list of strings), "int" (a number,  *)
(* or a numeric string, which int() and float() read alike), "inf" (the    *)
(* float infinity, which a JSON number such as 1e999 yields) and "bool".   *)
(* Temperatures are counted in hundredths.                                 *)
(***************************************************************************)
MaxTextLen == 2
MaxListLen == 2

Chars == {"a", "b", ",", " "}

Absent == [t |-> "absent"]
PyNone == [t |-> "none"]
PyInf == [t |-> "inf"]
PyStr(s) == [t |-> "str", v |-> s]
PyList(l) == [t |-> "list", v |-> l]
PyInt(n) == [t |-> "int", v |-> n]
PyBool(b) == [t |-> "bool", v |-> b]

ABSOLUTE_MIN_TOKENS == 1000
ABSOLUTE_MAX_TOKENS == 6500
BASE_MIN_TOKENS == 2500
MANY_BULLETS_MIN_TOKENS == 3000
MANY_SECTIONS_MIN_TOKENS == 3500

\* services.py 175-194
DEFAULT_PARAMETERS ==
    [sections |-> PyList(<< <<"Professional Experience">>, <<"Leadership">>, <<"Projects">> >>),
     bullets_per_section |-> PyInt(3),
     tone |-> PyStr(<<"confident and metric-driven">>),
     include_summary |-> PyBool(TRUE),
     include_cover_letter |-> PyBool(FALSE),
     temperature |-> PyInt(35),
     max_output_tokens |-> PyInt(3500),
     stretch_level |-> PyInt(2),
     section_layout |-> PyList(<< <<"Professional Experience">>, <<"Leadership">>, <<"Projects">> >>),
     cover_letter_inserts |-> PyList(<<>>)]

ParameterKeys == DOMAIN DEFAULT_PARAMETERS

\* str.strip()
RECURSIVE LStrip(_)
LStrip(s) == IF s # <<>> /\ Head(s) = " " THEN LStrip(Tail(s)) ELSE s

RECURSIVE RStrip(_)
RStrip(s) ==
    IF s # <<>> /\ s[Len(s)] = " " THEN RStrip(SubSeq(s, 1, Len(s) - 1)) ELSE s

Strip(s) == RStrip(LStrip(s))

\* re.split(r"[\n,]+", s): the pieces between the separators; cur is the
\* piece being read.  (The empty pieces re.split yields at the ends are
\* dropped by the callers' "if item.strip()", like any other blank piece.)
RECURSIVE SplitSeparators(_, _)
SplitSeparators(s, cur) ==
    IF s = <<>> THEN <<cur>>
    ELSE IF Head(s) = "," THEN <<cur>> \o SplitSeparators(Tail(s), <<>>)
    ELSE SplitSeparators(Tail(s), Append(cur, Head(s)))

\* [item.strip() for item in items if item.strip()]
RECURSIVE StripNonBlank(_)
StripNonBlank(items) ==
    IF items = <<>> THEN <<>>
    ELSE IF Strip(Head(items)) = <<>> THEN StripNonBlank(Tail(items))
    ELSE <<Strip(Head(items))>> \o StripNonBlank(Tail(items))

\* services.py 1232-1239, 1273-1280, 1288-1294: a string is split, an
\* iterable is stripped item by item, anything else gives `otherwise`.
ParseStringList(value, otherwise) ==
    CASE value.t = "str" -> StripNonBlank(SplitSeparators(value.v, <<>>))
      [] value.t = "list" -> StripNonBlank(value.v)
      [] OTHER -> otherwise

\* int(value) under "except (TypeError, ValueError)": the number, the
\* default for a non-numeric string, None or a list, and OverflowError,
\* which is not caught, for an infinite float.
IntOrDefault(value, default) ==
    CASE value.t = "int" -> [raised |-> FALSE, v |-> value.v]
      [] value.t = "inf" -> [raised |-> TRUE, v |-> 0]
      [] OTHER -> [raised |-> FALSE, v |-> default]

\* bool(value)
Truthy(value) ==
    CASE value.t = "bool" -> value.v
      [] value.t = "int" -> value.v # 0
      [] value.t = "str" -> value.v # <<>>
      [] value.t = "list" -> value.v # <<>>
      [] value.t = "inf" -> TRUE
      [] OTHER -> FALSE

Max(a, b) == IF a >= b THEN a ELSE b
Min(a, b) == IF a <= b THEN a ELSE b

\* services.py 1299-1315
MinTokens(bullets_per_section, num_sections) ==
    LET base == BASE_MIN_TOKENS
        many_bullets == IF bullets_per_section >= 5
                        THEN Max(base, MANY_BULLETS_MIN_TOKENS) ELSE base
        many_sections == IF num_sections >= 3 /\ bullets_per_section >= 4
                         THEN Max(many_bullets, MANY_SECTIONS_MIN_TOKENS)
                         ELSE many_bullets
    IN  Max(many_sections, ABSOLUTE_MIN_TOKENS)

\* services.py 1318-1333
ClampTokens(tokens, min_tokens) ==
    LET raised == IF tokens < min_tokens THEN min_tokens ELSE tokens
    IN  IF raised > ABSOLUTE_MAX_TOKENS THEN ABSOLUTE_MAX_TOKENS ELSE raised

\* services.py 1283-1286
LayoutOf(given, section_names, layout_list) ==
    IF given.sections.t # "absent" /\ section_names # <<>> THEN section_names ELSE layout_list

\* normalize_parameters (services.py 1225-1335).  given is the dict passed
\* in, with [t |-> "absent"] for a key it does not hold.
normalize_parameters(given) ==
    LET merged == [k \in ParameterKeys |->
                      IF given[k].t = "absent" THEN DEFAULT_PARAMETERS[k] ELSE given[k]]
        parsed_sections == ParseStringList(merged.sections, DEFAULT_PARAMETERS.sections.v)
        section_names == IF parsed_sections = <<>>
                    THEN DEFAULT_PARAMETERS.sections.v ELSE parsed_sections
        bps_raw == IntOrDefault(merged.bullets_per_section,
                                DEFAULT_PARAMETERS.bullets_per_section.v)
        \* int() raises inside max(1, ...); a default needs no max
        bullets_per_section == IF merged.bullets_per_section.t = "int"
                               THEN Max(1, bps_raw.v) ELSE bps_raw.v
        \* float() accepts the infinite float
        temperature == IF merged.temperature.t \in {"int", "inf"}
                       THEN merged.temperature
                       ELSE DEFAULT_PARAMETERS.temperature
        tokens_raw == IntOrDefault(merged.max_output_tokens,
                                   DEFAULT_PARAMETERS.max_output_tokens.v)
        tone_text == IF merged.tone.t = "str" THEN Strip(merged.tone.v) ELSE <<"?">>
        tone == IF tone_text = <<>> THEN DEFAULT_PARAMETERS.tone.v ELSE tone_text
        stretch_raw == IntOrDefault(merged.stretch_level, DEFAULT_PARAMETERS.stretch_level.v)
        parsed_layout == ParseStringList(merged.section_layout,
                                         DEFAULT_PARAMETERS.section_layout.v)
        layout_list == IF parsed_layout = <<>>
                       THEN DEFAULT_PARAMETERS.section_layout.v ELSE parsed_layout
        inserts_value == IF Truthy(merged.cover_letter_inserts)
                         THEN merged.cover_letter_inserts ELSE PyList(<<>>)
        num_sections == IF Len(section_names) # 0 THEN Len(section_names)
                        ELSE Len(LayoutOf(given, section_names, layout_list))
    IN  IF bps_raw.raised \/ tokens_raw.raised \/ stretch_raw.raised
        THEN [status |-> "raised", exc |-> "OverflowError"]
        ELSE [status |-> "ok",
              value |->
                [sections |-> PyList(section_names),
                 bullets_per_section |-> PyInt(bullets_per_section),
                 temperature |-> temperature,
                 max_output_tokens |->
                     PyInt(ClampTokens(tokens_raw.v,
                                       MinTokens(bullets_per_section, num_sections))),
                 tone |-> PyStr(tone),
                 include_summary |-> PyBool(Truthy(merged.include_summary)),
                 include_cover_letter |-> PyBool(Truthy(merged.include_cover_letter)),
                 stretch_level |-> PyInt(Max(0, Min(3, stretch_raw.v))),
                 section_layout |-> PyList(LayoutOf(given, section_names, layout_list)),
                 cover_letter_inserts |-> PyList(ParseStringList(inserts_value, <<>>))]]

NotNormalized == [status |-> "none"]

AllAbsent == [k \in ParameterKeys |-> Absent]

Texts == SeqsUpTo(Chars, MaxTextLen)
ListItems == SeqsUpTo(Chars, 1)

\* What a caller may give for sections, section_layout, cover_letter_inserts
StringListInputs ==
    {Absent, PyNone} \cup {PyStr(s) : s \in Texts}
        \cup {PyList(l) : l \in SeqsUpTo(ListItems, MaxListLen)}

\* What a caller may give for a numeric key
BulletInputs == {Absent, PyNone, PyStr(<<"a">>), PyInf, PyInt(0), PyInt(4), PyInt(5)}
TokenInputs == {Absent, PyStr(<<"a">>), PyInt(500), PyInt(3200), PyInt(9000)}
StretchInputs == {Absent, PyNone, PyInt(-1), PyInt(1), PyInt(5)}
ToneInputs == {Absent, PyStr(<<" ">>), PyStr(<<"a", " ">>)}
FlagInputs == {Absent, PyBool(TRUE), PyBool(FALSE), PyStr(<<"a">>)}

\* The parameter sets enumerated: every pair of section lists with the
\* other keys absent, and every combination of the scalar keys with two
\* section lists.
ParameterInputs ==
    {[AllAbsent EXCEPT !.sections = s, !.section_layout = l] :
        s \in StringListInputs, l \in StringListInputs}
    \cup
    {[AllAbsent EXCEPT !.sections = s, !.bullets_per_section = b,
                       !.max_output_tokens = m, !.stretch_level = x,
                       !.tone = o, !.include_cover_letter = f] :
        s \in {Absent, PyList(<< <<"a">> >>)}, b \in BulletInputs, m \in TokenInputs,
        x \in StretchInputs, o \in ToneInputs, f \in FlagInputs}

(***************************************************************************)
(* Collaborator exchange: _call_openai_json, _extract_response_json and    *)
(* _repair_json_string (services.py 1866-2070).                            *)
(*                                                                         *)
(* The reply text is a sequence of tokens: the brackets "{" "}" "[" "]",   *)
(* "k" (a quoted key with its colon), "n" (a complete scalar literal),     *)
(* ",", "\n" (white space), "p" (a word of prose), "P" (prose of 200       *)
(* characters or more), "F" (the fence ```) and "J" (the fence ```json).   *)
(* String literals are whole tokens, so every line holds an even number of *)
(* quotes and the unterminated-string repair (services.py 1905-1918)       *)
(* changes nothing.                                                        *)
(***************************************************************************)
MaxReplyLen == 4
PREFIX_LIMIT == 200

ReplyTokens == {"{", "}", "[", "]", "k", "n", ",", "\n", "p", "P", "F", "J"}

\* len() of a token in characters, as far as the prefix test reads it
TokenChars(tok) == IF tok = "P" THEN PREFIX_LIMIT ELSE 1

RECURSIVE TextChars(_)
TextChars(s) == IF s = <<>> THEN 0 ELSE TokenChars(Head(s)) + TextChars(Tail(s))

\* str.strip() on a reply
RECURSIVE LStripWs(_)
LStripWs(s) == IF s # <<>> /\ Head(s) = "\n" THEN LStripWs(Tail(s)) ELSE s

RECURSIVE RStripWs(_)
RStripWs(s) ==
    IF s # <<>> /\ s[Len(s)] = "\n" THEN RStripWs(SubSeq(s, 1, Len(s) - 1)) ELSE s

StripWs(s) == RStripWs(LStripWs(s))

\* str.find / str.rfind: a position from 1, 0 when there is none (Python -1)
Find(s, tok) ==
    IF \E i \in 1..Len(s) : s[i] = tok
    THEN CHOOSE i \in 1..Len(s) : s[i] = tok /\ \A j \in 1..(i - 1) : s[j] # tok
    ELSE 0

RFind(s, tok) ==
    IF \E i \in 1..Len(s) : s[i] = tok
    THEN CHOOSE i \in 1..Len(s) : s[i] = tok /\ \A j \in (i + 1)..Len(s) : s[j] # tok
    ELSE 0

RECURSIVE DropWs(_)
DropWs(s) ==
    IF s = <<>> THEN <<>>
    ELSE IF Head(s) = "\n" THEN DropWs(Tail(s))
    ELSE <<Head(s)>> \o DropWs(Tail(s))

\* json.loads: a recursive-descent reading of value, array and object.
\* Each reader returns [ok, rest].
ParseFail == [ok |-> FALSE, rest |-> <<>>]

RECURSIVE ParseValue(_), ParseElements(_, _), ParseMembers(_, _)
ParseValue(s) ==
    IF s = <<>> THEN ParseFail
    ELSE CASE Head(s) = "n" -> [ok |-> TRUE, rest |-> Tail(s)]
           [] Head(s) = "[" -> ParseElements(Tail(s), TRUE)
           [] Head(s) = "{" -> ParseMembers(Tail(s), TRUE)
           [] OTHER -> ParseFail

ParseElements(s, first) ==
    IF s = <<>> THEN ParseFail
    ELSE IF first /\ Head(s) = "]" THEN [ok |-> TRUE, rest |-> Tail(s)]
    ELSE LET v == ParseValue(s)
         IN  IF ~v.ok \/ v.rest = <<>> THEN ParseFail
             ELSE IF Head(v.rest) = "]" THEN [ok |-> TRUE, rest |-> Tail(v.rest)]
             ELSE IF Head(v.rest) = "," THEN ParseElements(Tail(v.rest), FALSE)
             ELSE ParseFail

ParseMembers(s, first) ==
    IF s = <<>> THEN ParseFail
    ELSE IF first /\ Head(s) = "}" THEN [ok |-> TRUE, rest |-> Tail(s)]
    ELSE IF Head(s) # "k" THEN ParseFail
    ELSE LET v == ParseValue(Tail(s))
         IN  IF ~v.ok \/ v.rest = <<>> THEN ParseFail
             ELSE IF Head(v.rest) = "}" THEN [ok |-> TRUE, rest |-> Tail(v.rest)]
             ELSE IF Head(v.rest) = "," THEN ParseMembers(Tail(v.rest), FALSE)
             ELSE ParseFail

\* json.loads(text): the kind of value read ("dict", "list", "scalar"), or
\* "error" for JSONDecodeError
json_loads(text) ==
    LET s == DropWs(text)
        v == ParseValue(s)
    IN  IF v.ok /\ v.rest = <<>>
        THEN CASE Head(s) = "{" -> "dict"
               [] Head(s) = "[" -> "list"
               [] OTHER -> "scalar"
        ELSE "error"

\* services.py 1875-1900: the brace depth after each token, and the last
\* position at which a "}" brings it back to 0
RECURSIVE BraceDepth(_, _)
BraceDepth(s, i) ==
    IF i = 0 THEN 0
    ELSE BraceDepth(s, i - 1)
            + (IF s[i] = "{" THEN 1 ELSE IF s[i] = "}" THEN -1 ELSE 0)

LastValidClose(s) ==
    LET closes == {i \in 1..Len(s) : s[i] = "}" /\ BraceDepth(s, i) = 0}
    IN  IF closes = {} THEN 0 ELSE CHOOSE i \in closes : \A j \in closes : j <= i

\* services.py 1903: a comma is dropped when only white space separates it
\* from a closing bracket
RECURSIVE DropTrailingCommas(_)
DropTrailingCommas(s) ==
    IF s = <<>> THEN <<>>
    ELSE LET after == LStripWs(Tail(s))
         IN  IF Head(s) = "," /\ after # <<>> /\ Head(after) \in {"]", "}"}
             THEN DropTrailingCommas(Tail(s))
             ELSE <<Head(s)>> \o DropTrailingCommas(Tail(s))

\* _repair_json_string (services.py 1866-1920)
_repair_json_string(s) ==
    LET last == LastValidClose(s)
        cut == IF last > 1 /\ last < Len(s) THEN SubSeq(s, 1, last) ELSE s
    IN  DropTrailingCommas(cut)

\* str.split('\n')
RECURSIVE SplitLines(_, _)
SplitLines(s, cur) ==
    IF s = <<>> THEN <<cur>>
    ELSE IF Head(s) = "\n" THEN <<cur>> \o SplitLines(Tail(s), <<>>)
    ELSE SplitLines(Tail(s), Append(cur, Head(s)))

CountOf(line, tok) == Cardinality({i \in 1..Len(line) : line[i] = tok})

\* services.py 2042-2057: the lines from the first one that starts with "{"
\* up to the first later line after which the braces balance.  st is
\* [in_json, brace_count, json_lines, stop].
JsonLinesStep(st, line) ==
    LET delta == CountOf(line, "{") - CountOf(line, "}")
    IN  IF st.stop THEN st
        ELSE IF ~st.in_json /\ line # <<>> /\ Head(line) = "{"
        THEN [in_json |-> TRUE, brace_count |-> delta,
              json_lines |-> Append(st.json_lines, line), stop |-> FALSE]
        ELSE IF st.in_json
        THEN [in_json |-> TRUE, brace_count |-> st.brace_count + delta,
              json_lines |-> Append(st.json_lines, line),
              stop |-> st.brace_count + delta = 0]
        ELSE st

RECURSIVE JsonLinesLoop(_, _)
JsonLinesLoop(st, lines) ==
    IF lines = <<>> THEN st.json_lines
    ELSE JsonLinesLoop(JsonLinesStep(st, Head(lines)), Tail(lines))

\* '\n'.join(lines)
RECURSIVE JoinLines(_)
JoinLines(lines) ==
    IF lines = <<>> THEN <<>>
    ELSE IF Len(lines) = 1 THEN Head(lines)
    ELSE Head(lines) \o <<"\n">> \o JoinLines(Tail(lines))

JsonLines(raw) ==
    JsonLinesLoop([in_json |-> FALSE, brace_count |-> 0, json_lines |-> <<>>,
                   stop |-> FALSE],
                  SplitLines(raw, <<>>))

Returned(kind) == [status |-> "returned", kind |-> kind]
Raised(exc, reason) == [status |-> "raised", exc |-> exc, reason |-> reason]

\* services.py 1983-1991
StripProsePrefix(raw) ==
    LET json_start == Find(raw, "{")
        prefix == StripWs(SubSeq(raw, 1, json_start - 1))
    IN  IF raw # <<>> /\ Head(raw) = "{" THEN raw
        ELSE IF json_start > 1 /\ TextChars(prefix) > 0 /\ TextChars(prefix) < PREFIX_LIMIT
        THEN SubSeq(raw, json_start, Len(raw))
        ELSE raw

\* services.py 1993-2000
StripFences(raw) ==
    LET opened == IF raw # <<>> /\ Head(raw) \in {"J", "F"} THEN Tail(raw) ELSE raw
        closed == IF opened # <<>> /\ opened[Len(opened)] = "F"
                  THEN SubSeq(opened, 1, Len(opened) - 1) ELSE opened
    IN  StripWs(closed)

\* services.py 2009-2070, from the first json.loads on
ParseOrRecover(raw) ==
    LET start == Find(raw, "{")
        end == RFind(raw, "}")
        potential_json == SubSeq(raw, start, end)
        repaired == _repair_json_string(potential_json)
        json_lines == JsonLines(raw)
    IN  IF json_loads(raw) # "error" THEN Returned(json_loads(raw))
        ELSE IF start = 0 \/ end = 0
        THEN Raised("TailoringPipelineError", "malformed-output")
        ELSE IF json_loads(potential_json) # "error"
        THEN Returned(json_loads(potential_json))
        ELSE IF json_loads(repaired) # "error" THEN Returned(json_loads(repaired))
        ELSE IF json_lines # <<>> /\ json_loads(JoinLines(json_lines)) # "error"
        THEN Returned(json_loads(JoinLines(json_lines)))
        ELSE Raised("TailoringPipelineError", "malformed-output")

\* _extract_response_json (services.py 1972-2070)
_extract_response_json(reply) ==
    LET cleaned == StripFences(StripProsePrefix(StripWs(reply.output)))
        raw_payload == IF cleaned = <<>> THEN StripWs(reply.output_text) ELSE cleaned
    IN  IF raw_payload = <<>> THEN Raised("TailoringPipelineError", "empty-output")
        ELSE ParseOrRecover(raw_payload)

\* _call_openai_json (services.py 1922-1970): the request itself may raise
_call_openai_json(reply) ==
    IF reply.request_fails THEN Raised("TailoringPipelineError", "request-failed")
    ELSE _extract_response_json(reply)

NotCalled == [status |-> "none"]

NoReply == [request_fails |-> FALSE, output |-> <<>>, output_text |-> <<>>]

\* Replies longer than MaxReplyLen that reach the line-by-line recovery
SampleReplies ==
    { <<"{", "\n", "}", "\n", "{", "}">>,
      <<"{", "\n", "k", "n", "\n", "}", "\n", "p", "{", "}">>,
      <<"J", "\n", "{", "k", "n", ",", "}", "\n", "F">> }

Replies ==
    {[request_fails |-> f, output |-> o, output_text |-> t] :
        f \in BOOLEAN,
        o \in SeqsUpTo(ReplyTokens, MaxReplyLen) \cup SampleReplies,
        t \in {<<>>, <<"{", "}">>}}

(***************************************************************************)
(* The tailoring pipeline: run_workflow (services.py 305-476),             *)
(* _generate_resume_package (478-802) and what it calls.                   *)
(*                                                                         *)
(* A bullet id is a record [k, i, j]: "b{i}-{j}" is [k |-> "b"], "fix-{i}" *)
(* is [k |-> "fix"], and an id chosen by the collaborator has its own k.   *)
(* A bullet text is a record [src, i, j] naming the exchange that wrote it *)
(* and its position there; EmptyText is the empty string.                  *)
(***************************************************************************)
MaxRawSections == 2
MaxBackfillBullets == 2
MaxBulletsPerSection == 2

NoId == [k |-> "", i |-> 0, j |-> 0]
DefaultId(si, bi) == [k |-> "b", i |-> si, j |-> bi]
FixId(idx) == [k |-> "fix", i |-> idx, j |-> 0]
GivenId == [k |-> "x", i |-> 0, j |-> 0]
GhostId == [k |-> "ghost", i |-> 0, j |-> 0]

EmptyText == [src |-> "", i |-> 0, j |-> 0]
GenText(si, bi) == [src |-> "gen", i |-> si, j |-> bi]
FixText(n, bi) == [src |-> "fix", i |-> n, j |-> bi]
RegenText == [src |-> "regen", i |-> 0, j |-> 0]

\* ids of the snippets in selected_snippets (_snippets_by_id, 1766-1774)
KnownSnippetIds == {"s1"}

ZeroUsage == [prompt_tokens |-> 0, completion_tokens |-> 0, total_tokens |-> 0]

\* _extract_usage (services.py 2072-2083); a reply without usage has
\* usage = ZeroReported
ZeroReported == [input_tokens |-> 0, output_tokens |-> 0, total_tokens |-> 0]

_extract_usage(reply) ==
    LET usage == reply.usage
        total == IF usage.total_tokens # 0 THEN usage.total_tokens
                 ELSE usage.input_tokens + usage.output_tokens
    IN  IF usage = ZeroReported THEN ZeroUsage
        ELSE [prompt_tokens |-> usage.input_tokens,
              completion_tokens |-> usage.output_tokens,
              total_tokens |-> total]

\* _merge_usage (services.py 2085-2087)
_merge_usage(accumulator, usage) ==
    [prompt_tokens |-> accumulator.prompt_tokens + usage.prompt_tokens,
     completion_tokens |-> accumulator.completion_tokens + usage.completion_tokens,
     total_tokens |-> accumulator.total_tokens + usage.total_tokens]

\* What the collaborator may answer to an exchange of the pipeline: the
\* request fails, or the reply is an object, an array, or prose.
ReportedUsage == [input_tokens |-> 2, output_tokens |-> 1, total_tokens |-> 0]

ExchangeReply(fails, output) ==
    [request_fails |-> fails, output |-> output, output_text |-> <<>>,
     usage |-> ReportedUsage]

ObjectReply == ExchangeReply(FALSE, <<"{", "}">>)
ArrayReply == ExchangeReply(FALSE, <<"[", "]">>)
ProseReply == ExchangeReply(FALSE, <<"p">>)
FailedRequest == ExchangeReply(TRUE, <<>>)

ExchangeReplies == {ObjectReply, ArrayReply, ProseReply, FailedRequest}

\* _fetch_job_description_from_url treats every failure alike
FetchReplies == {ObjectReply, FailedRequest}

\* One round trip as the log keeps it: which exchange, for which section
\* and how many bullets (backfill only), what _call_openai_json yielded, and
\* the tokens the collaborator spent on it.
RoundTrip(kind, section_name, bullet_count, reply) ==
    LET r == _call_openai_json(reply)
    IN  [kind |-> kind, section |-> section_name, bullet_count |-> bullet_count,
         result |-> IF r.status = "returned" THEN r.kind ELSE r.reason,
         spent |-> IF reply.request_fails THEN ZeroUsage ELSE _extract_usage(reply)]

\* The "sections" value of the first reply: a list whose entries are
\* objects [name, bullets] or something else (is_dict = FALSE); a bullet is
\* "plain" (text and snippet id, no id), "tagged" (text and an id of the
\* collaborator's) or "blank" (empty text).
BulletPatterns ==
    { <<>>, <<"plain">>, <<"plain", "plain">>, <<"tagged", "tagged">>,
      <<"blank", "plain">> }

ReplySectionNames == {"A", "B"}

RawSections ==
    {[is_dict |-> FALSE, name |-> "", bullets |-> <<>>]}
        \cup {[is_dict |-> TRUE, name |-> n, bullets |-> b] :
                n \in ReplySectionNames, b \in BulletPatterns}

RawSectionLists == SeqsUpTo(RawSections, MaxRawSections)

\* _parse_resume_sections (services.py 1797-1829), one bullet entry:
\* <<>> when the text is empty, else the one detail
ParseBullet(kind, section_name, si, bi) ==
    IF kind = "blank" THEN <<>>
    ELSE << [id |-> IF kind = "tagged" THEN GivenId ELSE DefaultId(si, bi),
             snippet_id |-> IF kind = "plain" THEN "s1" ELSE "",
             text |-> GenText(si, bi),
             section |-> section_name,
             section_index |-> si - 1,
             bullet_index |-> bi - 1] >>

RECURSIVE ParseBullets(_, _, _, _)
ParseBullets(kinds, section_name, si, bi) ==
    IF bi > Len(kinds) THEN <<>>
    ELSE ParseBullet(kinds[bi], section_name, si, bi)
            \o ParseBullets(kinds, section_name, si, bi + 1)

TextsOf(details) == [i \in 1..Len(details) |-> details[i].text]

\* _parse_resume_sections: [sections, flat_bullets, bullet_details]
RECURSIVE ParseSectionsFrom(_, _)
ParseSectionsFrom(raw_sections, si) ==
    IF si > Len(raw_sections)
    THEN [sections |-> <<>>, flat_bullets |-> <<>>, bullet_details |-> <<>>]
    ELSE LET rest == ParseSectionsFrom(raw_sections, si + 1)
             raw_section == raw_sections[si]
             details == ParseBullets(raw_section.bullets, raw_section.name, si, 1)
         IN  IF ~raw_section.is_dict THEN rest
             ELSE [sections |->
                       <<[name |-> raw_section.name, bullets |-> TextsOf(details)]>>
                           \o rest.sections,
                   flat_bullets |-> TextsOf(details) \o rest.flat_bullets,
                   bullet_details |-> details \o rest.bullet_details]

_parse_resume_sections(raw_sections) == ParseSectionsFrom(raw_sections, 1)

\* position of the first / last section carrying a name, 0 when none
FirstIndexOf(secs, section_name) ==
    IF \E i \in 1..Len(secs) : secs[i].name = section_name
    THEN CHOOSE i \in 1..Len(secs) :
            /\ secs[i].name = section_name
            /\ \A j \in 1..(i - 1) : secs[j].name # section_name
    ELSE 0

LastIndexOf(secs, section_name) ==
    IF \E i \in 1..Len(secs) : secs[i].name = section_name
    THEN CHOOSE i \in 1..Len(secs) :
            /\ secs[i].name = section_name
            /\ \A j \in (i + 1)..Len(secs) : secs[j].name # section_name
    ELSE 0

\* _validate_and_fix_sections (services.py 824-846): existing_sections keeps
\* the last section of each name
RECURSIVE SectionsToFix(_, _, _)
SectionsToFix(secs, requested_sections, bullets_per_section) ==
    IF requested_sections = <<>> THEN <<>>
    ELSE LET section_name == Head(requested_sections)
             at == LastIndexOf(secs, section_name)
             current_count == IF at = 0 THEN 0 ELSE Len(secs[at].bullets)
             rest == SectionsToFix(secs, Tail(requested_sections), bullets_per_section)
         IN  IF at = 0
             THEN <<[name |-> section_name, reason |-> "missing",
                     current_count |-> 0, needed |-> bullets_per_section]>> \o rest
             ELSE IF current_count < bullets_per_section
             THEN <<[name |-> section_name, reason |-> "incomplete",
                     current_count |-> current_count,
                     needed |-> bullets_per_section - current_count]>> \o rest
             ELSE rest

\* a variant that asks for a full section whatever the section holds
NeededBullets_full_section(fix_info, bullets_per_section) == bullets_per_section

\* services.py 857: the count asked of the collaborator
NeededBullets(fix_info, bullets_per_section) ==
    IF fix_info.reason = "incomplete" THEN fix_info.needed ELSE bullets_per_section

\* _generate_single_section (services.py 970-992): the details built from a
\* reply of count bullets, numbered by their place in the reply
FixDetails(n, count) ==
    [idx \in 1..count |->
        [id |-> FixId(idx), snippet_id |-> "", text |-> FixText(n, idx),
         section |-> "", section_index |-> 0, bullet_index |-> idx - 1]]

\* services.py 872-890: put the new bullets of one fix in place
MergeFix(secs, flat, details, fix_info, new_details) ==
    LET new_bullets == TextsOf(new_details)
        at == LastIndexOf(secs, fix_info.name)
        merged == IF fix_info.reason = "missing"
                  THEN Append(secs, [name |-> fix_info.name, bullets |-> new_bullets])
                  ELSE [secs EXCEPT ![at].bullets = @ \o new_bullets]
        first == FirstIndexOf(merged, fix_info.name)
        section_index == IF first = 0 THEN Len(merged) - 1 ELSE first - 1
        placed == [i \in 1..Len(new_details) |->
                     [new_details[i] EXCEPT !.section = fix_info.name,
                                            !.section_index = section_index]]
    IN  IF new_bullets = <<>>
        THEN [sections |-> secs, flat_bullets |-> flat, bullet_details |-> details]
        ELSE [sections |-> merged, flat_bullets |-> flat \o new_bullets,
              bullet_details |-> details \o placed]

\* services.py 896-909: the first section of each requested name, then the
\* sections not yet in the list (compared by value)
RECURSIVE RequestedFirst(_, _)
RequestedFirst(secs, requested_sections) ==
    IF requested_sections = <<>> THEN <<>>
    ELSE LET at == FirstIndexOf(secs, Head(requested_sections))
             rest == RequestedFirst(secs, Tail(requested_sections))
         IN  IF at = 0 THEN rest ELSE <<secs[at]>> \o rest

RECURSIVE AppendMissing(_, _)
AppendMissing(ordered_sections, secs) ==
    IF secs = <<>> THEN ordered_sections
    ELSE IF Head(secs) \in Range(ordered_sections)
    THEN AppendMissing(ordered_sections, Tail(secs))
    ELSE AppendMissing(Append(ordered_sections, Head(secs)), Tail(secs))

ReorderSections(secs, requested_sections) ==
    AppendMissing(RequestedFirst(secs, requested_sections), secs)

\* _flatten_sections (services.py 1860-1864)
RECURSIVE _flatten_sections(_)
_flatten_sections(secs) ==
    IF secs = <<>> THEN <<>>
    ELSE Head(secs).bullets \o _flatten_sections(Tail(secs))

\* _apply_guardrails (services.py 1060-1066): what the audit may report.  A
\* finding names a bullet (the first or the last one audited, or one that
\* does not exist), a snippet (known or not) and a status.
Verdicts ==
    { [snippet_id |-> "s1", status |-> "ok"],
      [snippet_id |-> "s1", status |-> "reject"],
      [snippet_id |-> "", status |-> "reject"],
      [snippet_id |-> "s1", status |-> "needs_revision"] }

AuditTargets(details) == {details[1].id, details[Len(details)].id, GhostId}

AuditFindings(details) ==
    {<<>>} \cup
    {<<[bullet_id |-> b, snippet_id |-> v.snippet_id, status |-> v.status]>> :
        b \in AuditTargets(details), v \in Verdicts}

\* services.py 1081-1084: the text of the first detail with that id, else ""
OriginalText(details, bullet_id) ==
    IF \E i \in 1..Len(details) : details[i].id = bullet_id
    THEN details[CHOOSE i \in 1..Len(details) :
                    /\ details[i].id = bullet_id
                    /\ \A j \in 1..(i - 1) : details[j].id # bullet_id].text
    ELSE EmptyText

\* services.py 1063-1085: the findings with status reject or needs_revision
RECURSIVE FlaggedOf(_, _)
FlaggedOf(findings, details) ==
    IF findings = <<>> THEN <<>>
    ELSE LET finding == Head(findings)
             rest == FlaggedOf(Tail(findings), details)
         IN  IF finding.status \in {"reject", "needs_revision"}
             THEN <<[bullet_id |-> finding.bullet_id,
                     snippet_id |-> finding.snippet_id,
                     status |-> finding.status,
                     original_text |-> OriginalText(details, finding.bullet_id)]>>
                      \o rest
             ELSE rest

\* _regenerate_bullets (services.py 1136-1157): a flagged item whose snippet
\* is not in the snippet map is left out of the request
RECURSIVE RegenerationRequests(_)
RegenerationRequests(flagged_items) ==
    IF flagged_items = <<>> THEN <<>>
    ELSE IF Head(flagged_items).snippet_id \in KnownSnippetIds
    THEN <<Head(flagged_items)>> \o RegenerationRequests(Tail(flagged_items))
    ELSE RegenerationRequests(Tail(flagged_items))

\* services.py 1168-1178: what the regeneration reply may hold for the first
\* request: nothing, a new text, or an empty text
RegenReplacements(requests) ==
    {<<>>} \cup
    {<<[bullet_id |-> requests[1].bullet_id, text |-> t]>> : t \in {RegenText, EmptyText}}

\* services.py 770: {detail["id"]: detail}, a dict: one entry per id, at the
\* place of the id's first detail, holding its last detail
BulletLookup(details) ==
    LET firsts == {i \in 1..Len(details) :
                      \A j \in 1..(i - 1) : details[j].id # details[i].id}
        LastOf(i) == CHOOSE l \in 1..Len(details) :
                        /\ details[l].id = details[i].id
                        /\ \A j \in (l + 1)..Len(details) : details[j].id # details[i].id
        NthFirst(n) == CHOOSE i \in firsts : Cardinality({j \in firsts : j < i}) = n - 1
    IN  [n \in 1..Cardinality(firsts) |-> details[LastOf(NthFirst(n))]]

\* services.py 771-780: the replacements written into the lookup
RECURSIVE ApplyReplacements(_, _)
ApplyReplacements(details, replacements) ==
    IF replacements = <<>> THEN details
    ELSE ApplyReplacements(
            [i \in 1..Len(details) |->
                IF details[i].id = Head(replacements).bullet_id
                THEN [details[i] EXCEPT !.text = Head(replacements).text]
                ELSE details[i]],
            Tail(replacements))

\* sorted(..., key=(section_index, bullet_index)): a stable sort
KeyLess(a, b) ==
    \/ a.section_index < b.section_index
    \/ a.section_index = b.section_index /\ a.bullet_index < b.bullet_index

KeyEqual(a, b) == a.section_index = b.section_index /\ a.bullet_index = b.bullet_index

SortByPlace(details) ==
    LET Rank(i) == Cardinality({j \in 1..Len(details) :
                        \/ KeyLess(details[j], details[i])
                        \/ KeyEqual(details[j], details[i]) /\ j < i}) + 1
    IN  [r \in 1..Len(details) |-> details[CHOOSE i \in 1..Len(details) : Rank(i) = r]]

GroupKey(detail) == [section_index |-> detail.section_index, section |-> detail.section]

\* the non-empty texts of one group, in order
RECURSIVE GroupTexts(_, _)
GroupTexts(ordered, key) ==
    IF ordered = <<>> THEN <<>>
    ELSE IF GroupKey(Head(ordered)) = key /\ Head(ordered).text # EmptyText
    THEN <<Head(ordered).text>> \o GroupTexts(Tail(ordered), key)
    ELSE GroupTexts(Tail(ordered), key)

\* the groups in the order in which their first detail comes; a group left
\* without text gives no section
RECURSIVE ComposeFrom(_, _, _)
ComposeFrom(ordered, i, seen) ==
    IF i > Len(ordered) THEN <<>>
    ELSE LET key == GroupKey(ordered[i])
             cleaned == GroupTexts(ordered, key)
         IN  IF key \in seen THEN ComposeFrom(ordered, i + 1, seen)
             ELSE IF cleaned = <<>> THEN ComposeFrom(ordered, i + 1, seen \cup {key})
             ELSE <<[name |-> key.section, bullets |-> cleaned]>>
                      \o ComposeFrom(ordered, i + 1, seen \cup {key})

\* _compose_sections_from_details (services.py 1835-1858)
_compose_sections_from_details(details) == ComposeFrom(SortByPlace(details), 1, {})

\* What a caller may ask for
Requests ==
    [requested_sections : {<<"A">>, <<"A", "B">>},
     bullets_per_section : 1..MaxBulletsPerSection,
     include_cover_letter : BOOLEAN,
     source : {"description", "url", "none"}]

NoRequest ==
    [requested_sections |-> <<>>, bullets_per_section |-> 1,
     include_cover_letter |-> FALSE, source |-> "none"]

Running == [status |-> "running"]

\* the session row once process_tailoring_session has claimed it
\* (tasks.py 42-61); token_usage is the field's default
ClaimedSession == [status |-> "processing", token_usage |-> ZeroUsage]

(***************************************************************************)
(* Pure helpers: one call is recorded in helper_args / helper_result.      *)
(***************************************************************************)
NoArguments == [fn |-> "none"]
NotReturned == [status |-> "none"]

(***************************************************************************)
(* ResumeOptimizer.calculate_ats_score (services.py 2228-2391).            *)
(*                                                                         *)
(* A string is a sequence of characters.  A float is kept exact, as the    *)
(* fraction [n, d] with d > 0; the scores of the returned record are       *)
(* rounded to one decimal, that is fractions with d = 10.  None and the    *)
(* empty list are both falsy in the tests "if required_skills", so an      *)
(* absent skill list is the empty sequence.                                *)
(***************************************************************************)
MaxAtsList == 2
MaxAtsBullets == 2

\* str.lower
UpperLetters ==
    <<"A", "B", "C", "D", "E", "F", "G", "H", "I", "J", "K", "L", "M",
      "N", "O", "P", "Q", "R", "S", "T", "U", "V", "W", "X", "Y", "Z">>

LowerLetters ==
    <<"a", "b", "c", "d", "e", "f", "g", "h", "i", "j", "k", "l", "m",
      "n", "o", "p", "q", "r", "s", "t", "u", "v", "w", "x", "y", "z">>

LowerChar(c) ==
    IF \E i \in 1..Len(UpperLetters) : UpperLetters[i] = c
    THEN LowerLetters[CHOOSE i \in 1..Len(UpperLetters) : UpperLetters[i] = c]
    ELSE c

Lower(s) == [i \in 1..Len(s) |-> LowerChar(s[i])]

\* the operator "in" on two strings
Contains(text, sub) ==
    \E i \in 1..(Len(text) + 1) :
        /\ i + Len(sub) - 1 <= Len(text)
        /\ \A k \in 1..Len(sub) : text[i + k - 1] = sub[k]

\* " ".join(items)
RECURSIVE JoinWithSpace(_)
JoinWithSpace(items) ==
    IF items = <<>> THEN <<>>
    ELSE IF Len(items) = 1 THEN items[1]
    ELSE items[1] \o <<" ">> \o JoinWithSpace(Tail(items))

\* services.py 2281, 2302: the terms that are skipped
TrivialTerms ==
    {<<"a">>, <<"a", "n">>, <<"t", "h", "e">>, <<"a", "i", "d">>,
     <<"i", "t">>, <<"i", "s">>}

IsTrivial(skill) == Len(skill) <= 2 \/ Lower(skill) \in TrivialTerms

\* services.py 2279-2287, 2300-2308: the skills found in the text and the
\* skills missing from it, trivial terms left out of both
MatchedSkills(skills, resume_text) ==
    LET Hit(skill) == ~IsTrivial(skill) /\ Contains(resume_text, Lower(skill))
    IN  SelectSeq(skills, Hit)

MissingSkills(skills, resume_text) ==
    LET Miss(skill) == ~IsTrivial(skill) /\ ~Contains(resume_text, Lower(skill))
    IN  SelectSeq(skills, Miss)

\* services.py 2263-2267
MatchedKeywords(job_keywords, resume_text) ==
    LET Hit(kw) == Contains(resume_text, Lower(kw))
    IN  SelectSeq(job_keywords, Hit)

Fraction(n, d) == [n |-> n, d |-> d]

FractionLess(a, b) == a.n * b.d < b.n * a.d

FractionEqual(a, b) == a.n * b.d = b.n * a.d

\* (matches / total) * 100
Percent(matches, total) == Fraction(100 * matches, total)

\* services.py 2265-2270
keyword_match_pct(job_keywords, resume_text) ==
    IF job_keywords # <<>>
    THEN Percent(Len(MatchedKeywords(job_keywords, resume_text)), Len(job_keywords))
    ELSE Fraction(0, 1)

\* services.py 2276-2295
required_match_pct(required_skills, resume_text) ==
    LET required_matches == Len(MatchedSkills(required_skills, resume_text))
        total_valid_required ==
            required_matches + Len(MissingSkills(required_skills, resume_text))
    IN  IF total_valid_required > 0
        THEN Percent(required_matches, total_valid_required)
        ELSE Fraction(100, 1)

\* services.py 2298-2316
preferred_match_pct(preferred_skills, resume_text) ==
    LET preferred_matches == Len(MatchedSkills(preferred_skills, resume_text))
        total_valid_preferred ==
            preferred_matches + Len(MissingSkills(preferred_skills, resume_text))
    IN  IF total_valid_preferred > 0
        THEN Percent(preferred_matches, total_valid_preferred)
        ELSE Fraction(0, 1)

\* A plausible slip: the three weights add up to more than one.
WeightedScore_overweighted(required, keyword, preferred) ==
    Fraction(6 * required.n * keyword.d * preferred.d
                + 3 * keyword.n * required.d * preferred.d
                + 2 * preferred.n * required.d * keyword.d,
             10 * required.d * keyword.d * preferred.d)

\* services.py 2320-2324: required * 0.60 + keyword * 0.30 + preferred * 0.10
WeightedScore(required, keyword, preferred) ==
    Fraction(6 * required.n * keyword.d * preferred.d
                + 3 * keyword.n * required.d * preferred.d
                + 1 * preferred.n * required.d * keyword.d,
             10 * required.d * keyword.d * preferred.d)

\* round(x, 1): the nearest tenth, a tie going to the even tenth
Round1(x) ==
    LET q == (10 * x.n) \div x.d
        r == (10 * x.n) % x.d
    IN  IF 2 * r < x.d THEN Fraction(q, 10)
        ELSE IF 2 * r > x.d THEN Fraction(q + 1, 10)
        ELSE IF q % 2 = 0 THEN Fraction(q, 10)
        ELSE Fraction(q + 1, 10)

IsDigit(c) == c \in {"0", "1", "2", "3", "4", "5", "6", "7", "8", "9"}

\* len(re.findall(r'\d+', text)): the number of maximal runs of digits
CountNumbers(text) ==
    Cardinality({i \in 1..Len(text) :
        IsDigit(text[i]) /\ (i = 1 \/ ~IsDigit(text[i - 1]))})

\* services.py 2326-2375, a suggestion being written as its kind
AtsSuggestions(bullet_points, job_keywords, resume_text, missing_required, missing_preferred, keyword, preferred, overall_score) ==
    (IF missing_required # <<>> THEN <<"add_required">> ELSE <<>>)
    \o (IF FractionLess(keyword, Fraction(60, 1)) /\ job_keywords # <<>>
           /\ Len(MatchedKeywords(job_keywords, resume_text)) < Len(job_keywords)
        THEN <<"strengthen_keywords">> ELSE <<>>)
    \o (IF missing_preferred # <<>> /\ FractionLess(preferred, Fraction(40, 1))
        THEN <<"consider_preferred">> ELSE <<>>)
    \o (IF ~FractionLess(overall_score, Fraction(85, 1)) THEN <<"strong">>
        ELSE IF ~FractionLess(overall_score, Fraction(70, 1)) THEN <<"good">>
        ELSE IF ~FractionLess(overall_score, Fraction(50, 1)) THEN <<"moderate">>
        ELSE <<"gaps">>)
    \o (IF 2 * CountNumbers(resume_text) < Len(bullet_points)
        THEN <<"add_metrics">> ELSE <<>>)

\* missing[:10]
FirstTen(items) == SubSeq(items, 1, Min(Len(items), 10))

\* services.py 2229-2391
calculate_ats_score(bullet_points, job_keywords, required_skills, preferred_skills) ==
    IF job_keywords = <<>> /\ required_skills = <<>>
    THEN [overall_score |-> Fraction(0, 10),
          keyword_match |-> Fraction(0, 10),
          required_skills_match |-> Fraction(0, 10),
          preferred_skills_match |-> Fraction(0, 10),
          missing_critical |-> <<>>,
          missing_preferred |-> <<>>,
          suggestions |-> <<"no_requirements">>]
    ELSE
        LET resume_text == Lower(JoinWithSpace(bullet_points))
            keyword == keyword_match_pct(job_keywords, resume_text)
            required == required_match_pct(required_skills, resume_text)
            preferred == preferred_match_pct(preferred_skills, resume_text)
            missing_required == MissingSkills(required_skills, resume_text)
            missing_preferred == MissingSkills(preferred_skills, resume_text)
            overall_score == WeightedScore(required, keyword, preferred)
        IN  [overall_score |-> Round1(overall_score),
             keyword_match |-> Round1(keyword),
             required_skills_match |-> Round1(required),
             preferred_skills_match |-> Round1(preferred),
             missing_critical |-> FirstTen(missing_required),
             missing_preferred |-> FirstTen(missing_preferred),
             matched_required |-> MatchedSkills(required_skills, resume_text),
             matched_preferred |-> MatchedSkills(preferred_skills, resume_text),
             suggestions |-> AtsSuggestions(bullet_points, job_keywords, resume_text,
                                            missing_required, missing_preferred,
                                            keyword, preferred, overall_score)]

\* the inputs of the score: skills and keywords that match with and without
\* a change of case, a trivial term, a term of two letters, a keyword that
\* only matches across the joint of two bullets
AtsSkills ==
    {<<"d", "a", "d">>, <<"D", "a", "d">>, <<"a", "i", "d">>, <<"a", "d">>}

AtsKeywords ==
    {<<"d", "a", "d">>, <<"A", "d", "d">>, <<"a", "i", "d">>, <<"d", " ", "a">>}

AtsBullets ==
    {<<"D", "a", "d">>, <<"a", "d", "d", " ", "7">>, <<"a", "i", "d">>}

AtsArguments ==
    [fn : {"calculate_ats_score"},
     bullet_points : SeqsUpTo(AtsBullets, MaxAtsBullets),
     job_keywords : SeqsUpTo(AtsKeywords, MaxAtsList),
     required_skills : SeqsUpTo(AtsSkills, MaxAtsList),
     preferred_skills : SeqsUpTo(AtsSkills, MaxAtsList)]

(***************************************************************************)
(* ResumeOptimizer.validate_bullet_point (services.py 2406-2461).          *)
(*                                                                         *)
(* The bullet is a string, a sequence of characters; an issue and a        *)
(* suggestion are written as their kind.                                   *)
(***************************************************************************)
MAX_BULLET_CHARS == 220
MIN_BULLET_CHARS == 50
MIN_BULLET_WORDS == 10
MaxSlack == 7

\* services.py 2414-2418
action_verbs ==
    {<<"l", "e", "d">>,
     <<"m", "a", "n", "a", "g", "e", "d">>,
     <<"d", "e", "v", "e", "l", "o", "p", "e", "d">>,
     <<"c", "r", "e", "a", "t", "e", "d">>,
     <<"i", "m", "p", "r", "o", "v", "e", "d">>,
     <<"i", "n", "c", "r", "e", "a", "s", "e", "d">>,
     <<"r", "e", "d", "u", "c", "e", "d">>,
     <<"a", "c", "h", "i", "e", "v", "e", "d">>,
     <<"d", "e", "l", "i", "v", "e", "r", "e", "d">>,
     <<"b", "u", "i", "l", "t">>,
     <<"d", "e", "s", "i", "g", "n", "e", "d">>,
     <<"i", "m", "p", "l", "e", "m", "e", "n", "t", "e", "d">>,
     <<"a", "n", "a", "l", "y", "z", "e", "d">>,
     <<"o", "p", "t", "i", "m", "i", "z", "e", "d">>,
     <<"l", "a", "u", "n", "c", "h", "e", "d">>,
     <<"c", "o", "o", "r", "d", "i", "n", "a", "t", "e", "d">>,
     <<"e", "s", "t", "a", "b", "l", "i", "s", "h", "e", "d">>}

\* str.split(): the maximal runs without white space
RECURSIVE SplitWords(_)
SplitWords(s) ==
    LET t == LStrip(s)
        end == IF \E i \in 1..Len(t) : t[i] = " "
               THEN (CHOOSE i \in 1..Len(t) :
                        t[i] = " " /\ \A j \in 1..(i - 1) : t[j] # " ") - 1
               ELSE Len(t)
    IN  IF t = <<>> THEN <<>>
        ELSE <<SubSeq(t, 1, end)>> \o SplitWords(SubSeq(t, end + 1, Len(t)))

\* str.rstrip(".,;:")
RECURSIVE RStripPunctuation(_)
RStripPunctuation(s) ==
    IF s # <<>> /\ s[Len(s)] \in {".", ",", ";", ":"}
    THEN RStripPunctuation(SubSeq(s, 1, Len(s) - 1))
    ELSE s

\* re.match(r"^[A-Z]", bullet)
StartsWithCapital(bullet) ==
    bullet # <<>> /\ \E i \in 1..Len(UpperLetters) : UpperLetters[i] = bullet[1]

\* re.search(r"\d+", bullet)
has_number(bullet) == \E i \in 1..Len(bullet) : IsDigit(bullet[i])

\* re.search(r"\d+%", bullet)
has_percent(bullet) ==
    \E i \in 1..(Len(bullet) - 1) : IsDigit(bullet[i]) /\ bullet[i + 1] = "%"

\* re.search(r"\$[\d,]+", bullet)
has_dollar(bullet) ==
    \E i \in 1..(Len(bullet) - 1) :
        bullet[i] = "$" /\ (IsDigit(bullet[i + 1]) \/ bullet[i + 1] = ",")

\* services.py 2423-2429
LengthIssues(bullet) ==
    IF Len(bullet) > MAX_BULLET_CHARS THEN <<"too_long">>
    ELSE IF Len(bullet) < MIN_BULLET_CHARS THEN <<"too_short">>
    ELSE <<>>

\* services.py 2406-2461; bullet.split()[0] raises IndexError on a bullet
\* that is not empty and holds white space only (2420)
validate_bullet_point(bullet) ==
    IF bullet # <<>> /\ SplitWords(bullet) = <<>>
    THEN [status |-> "raised", exc |-> "IndexError"]
    ELSE
        LET first_word ==
                IF bullet # <<>>
                THEN RStripPunctuation(Lower(SplitWords(bullet)[1]))
                ELSE <<>>
            has_metrics == has_number(bullet) \/ has_percent(bullet) \/ has_dollar(bullet)
            issues ==
                LengthIssues(bullet)
                \o (IF ~StartsWithCapital(bullet) THEN <<"no_capital">> ELSE <<>>)
                \o (IF first_word \notin action_verbs THEN <<"no_action_verb">> ELSE <<>>)
            suggestions ==
                (IF Len(bullet) > MAX_BULLET_CHARS THEN <<"aim_for_100_180">>
                 ELSE IF Len(bullet) < MIN_BULLET_CHARS THEN <<"expand">>
                 ELSE <<>>)
                \o (IF ~StartsWithCapital(bullet) THEN <<"capitalize">> ELSE <<>>)
                \o (IF first_word \notin action_verbs THEN <<"start_with_verb">> ELSE <<>>)
                \o (IF ~has_metrics THEN <<"add_metrics">> ELSE <<>>)
                \o (IF Len(SplitWords(bullet)) < MIN_BULLET_WORDS
                    THEN <<"add_context">> ELSE <<>>)
        IN  [status |-> "returned",
             value |-> [valid |-> issues = <<>>,
                        issues |-> issues,
                        suggestions |-> suggestions,
                        has_metrics |-> has_metrics,
                        starts_with_action_verb |-> first_word \in action_verbs,
                        character_count |-> Len(bullet)]]

\* The bullets of the check: an opening, a metric and a filler that brings
\* the length next to one of the two limits.
BulletOpenings ==
    {<<>>, <<" ", " ">>,
     <<"L", "e", "d", " ">>, <<"l", "e", "d", " ">>, <<"L", "E", "D", ":", " ">>,
     <<"L", "e", "d">>, <<"R", "a", "n", " ">>, <<" ", "L", "e", "d", " ">>,
     <<"7", " ">>}

BulletMetrics ==
    {<<>>, <<"7">>, <<"7", "%">>, <<"$", "7">>, <<"$", ",">>, <<"$">>, <<"%">>}

FillerLengths ==
    {0} \cup {MIN_BULLET_CHARS - k : k \in 3..MaxSlack}
        \cup {MAX_BULLET_CHARS - k : k \in 3..MaxSlack}

\* a filler of one word, and a filler of words of four letters
Filler(style, n) ==
    [i \in 1..n |-> IF style = "words" /\ i % 5 = 0 THEN " " ELSE "x"]

ValidatorBullets ==
    {opening \o metric \o Filler(style, n) :
        opening \in BulletOpenings, metric \in BulletMetrics,
        style \in {"word", "words"}, n \in FillerLengths}

ValidatorArguments == [fn : {"validate_bullet_point"}, bullet : ValidatorBullets]

(***************************************************************************)
(* Job requirements: _extract_keywords and _extract_job_requirements       *)
(* (services.py 1349-1506).                                                *)
(*                                                                         *)
(* The description is a string, a sequence of characters with "\n" between *)
(* its lines.  White space is " " and "\n"; of the bullet marks that       *)
(* lstrip("-*•· ") removes, "-", "*" and " " are in use.  A list that the  *)
(* code ends by sorted(set(...)) is kept as a set until then.              *)
(***************************************************************************)
MaxDescriptionLines == 3

\* the characters from code point 32 to 126, in the order of their code
\* points (the grave accent, code point 96, is written "grave")
PrintableAscii ==
    <<" ", "!", "\"", "#", "$", "%", "&", "'", "(", ")", "*", "+", ",", "-",
      ".", "/", "0", "1", "2", "3", "4", "5", "6", "7", "8", "9", ":", ";",
      "<", "=", ">", "?", "@", "A", "B", "C", "D", "E", "F", "G", "H", "I",
      "J", "K", "L", "M", "N", "O", "P", "Q", "R", "S", "T", "U", "V", "W",
      "X", "Y", "Z", "[", "\\", "]", "^", "_", "grave", "a", "b", "c", "d", "e",
      "f", "g", "h", "i", "j", "k", "l", "m", "n", "o", "p", "q", "r", "s",
      "t", "u", "v", "w", "x", "y", "z", "{", "|", "}", "~">>

Ord(c) == 31 + (CHOOSE i \in 1..Len(PrintableAscii) : PrintableAscii[i] = c)

\* the order of str: by code point, a proper prefix first
RECURSIVE StrLess(_, _)
StrLess(a, b) ==
    IF b = <<>> THEN FALSE
    ELSE IF a = <<>> THEN TRUE
    ELSE IF Head(a) = Head(b) THEN StrLess(Tail(a), Tail(b))
    ELSE Ord(Head(a)) < Ord(Head(b))

\* sorted(set(items)), items being given as a set
RECURSIVE SortedSet(_)
SortedSet(items) ==
    IF items = {} THEN <<>>
    ELSE LET least == CHOOSE x \in items : \A y \in items \ {x} : StrLess(x, y)
         IN  <<least>> \o SortedSet(items \ {least})

\* list(set(items)): the order is the set's, which changes with the hash
\* seed of the process, so every order is possible
Orderings(items) ==
    {o \in [1..Cardinality(items) -> items] : \A x \in items : \E i \in DOMAIN o : o[i] = x}

\* services.py 33-54
STOPWORDS ==
    {<<"a">>, <<"a", "n">>, <<"a", "n", "d">>, <<"a", "s">>, <<"a", "t">>,
     <<"b", "e">>, <<"b", "y">>, <<"f", "o", "r">>, <<"f", "r", "o", "m">>,
     <<"i", "n">>, <<"i", "n", "t", "o">>, <<"i", "s">>, <<"o", "f">>,
     <<"o", "n">>, <<"o", "r">>, <<"t", "h", "a", "t">>, <<"t", "h", "e">>,
     <<"t", "o">>, <<"w", "i", "l", "l">>, <<"w", "i", "t", "h">>}

\* services.py 212-243
TECH_KEYWORDS ==
    {<<".", "n", "e", "t">>, <<"a", "g", "i", "l", "e">>, <<"a", "i">>,
     <<"a", "i", "r", "f", "l", "o", "w">>,
     <<"a", "n", "g", "u", "l", "a", "r">>,
     <<"a", "n", "s", "i", "b", "l", "e">>,
     <<"a", "p", "a", "c", "h", "e">>, <<"a", "p", "i">>,
     <<"a", "s", "p", ".", "n", "e", "t">>, <<"a", "w", "s">>,
     <<"a", "z", "u", "r", "e">>, <<"b", "a", "b", "e", "l">>,
     <<"b", "a", "s", "h">>, <<"b", "d", "d">>, <<"c", "#">>,
     <<"c", "+", "+">>, <<"c", "a", "s", "s", "a", "n", "d", "r", "a">>,
     <<"c", "i", "/", "c", "d">>,
     <<"c", "l", "o", "u", "d", "f", "l", "a", "r", "e">>,
     <<"c", "l", "o", "u", "d", "f", "o", "r", "m", "a", "t", "i", "o", "n">>,
     <<"c", "l", "o", "u", "d", "w", "a", "t", "c", "h">>,
     <<"c", "o", "m", "p", "l", "i", "a", "n", "c", "e">>,
     <<"c", "o", "m", "p", "u", "t", "e", "r", " ", "v", "i", "s", "i", "o", "n">>,
     <<"c", "o", "n", "f", "l", "u", "e", "n", "c", "e">>,
     <<"c", "o", "u", "c", "h", "d", "b">>, <<"c", "s", "s">>,
     <<"d", "a", "t", "a", " ", "p", "i", "p", "e", "l", "i", "n", "e">>,
     <<"d", "a", "t", "a", " ", "s", "c", "i", "e", "n", "c", "e">>,
     <<"d", "a", "t", "a", "b", "r", "i", "c", "k", "s">>,
     <<"d", "e", "e", "p", " ", "l", "e", "a", "r", "n", "i", "n", "g">>,
     <<"d", "e", "v", "o", "p", "s">>,
     <<"d", "i", "g", "i", "t", "a", "l", "o", "c", "e", "a", "n">>,
     <<"d", "j", "a", "n", "g", "o">>, <<"d", "o", "c", "k", "e", "r">>,
     <<"d", "y", "n", "a", "m", "o", "d", "b">>, <<"e", "c", "2">>,
     <<"e", "l", "a", "s", "t", "i", "c", "s", "e", "a", "r", "c", "h">>,
     <<"e", "n", "c", "r", "y", "p", "t", "i", "o", "n">>,
     <<"e", "t", "l">>, <<"e", "x", "c", "e", "l">>,
     <<"e", "x", "p", "r", "e", "s", "s">>,
     <<"f", "a", "s", "t", "a", "p", "i">>, <<"f", "l", "a", "s", "k">>,
     <<"g", "a", "t", "s", "b", "y">>, <<"g", "c", "p">>,
     <<"g", "d", "p", "r">>, <<"g", "i", "t">>,
     <<"g", "i", "t", "h", "u", "b">>, <<"g", "i", "t", "l", "a", "b">>,
     <<"g", "o">>, <<"g", "r", "a", "p", "h", "q", "l">>,
     <<"h", "a", "d", "o", "o", "p">>, <<"h", "e", "r", "o", "k", "u">>,
     <<"h", "t", "m", "l">>, <<"j", "a", "v", "a">>,
     <<"j", "a", "v", "a", "s", "c", "r", "i", "p", "t">>,
     <<"j", "e", "n", "k", "i", "n", "s">>, <<"j", "i", "r", "a">>,
     <<"j", "s", "o", "n">>, <<"j", "w", "t">>, <<"k", "a", "f", "k", "a">>,
     <<"k", "a", "n", "b", "a", "n">>, <<"k", "e", "r", "a", "s">>,
     <<"k", "o", "t", "l", "i", "n">>,
     <<"k", "u", "b", "e", "r", "n", "e", "t", "e", "s">>,
     <<"l", "a", "m", "b", "d", "a">>,
     <<"l", "a", "r", "a", "v", "e", "l">>,
     <<"l", "i", "n", "o", "d", "e">>, <<"l", "i", "n", "u", "x">>,
     <<"l", "o", "o", "k", "e", "r">>,
     <<"m", "a", "c", "h", "i", "n", "e", " ", "l", "e", "a", "r", "n", "i", "n", "g">>,
     <<"m", "a", "r", "i", "a", "d", "b">>,
     <<"m", "a", "t", "l", "a", "b">>,
     <<"m", "i", "c", "r", "o", "s", "e", "r", "v", "i", "c", "e", "s">>,
     <<"m", "i", "c", "r", "o", "s", "o", "f", "t", " ", "t", "e", "a", "m", "s">>,
     <<"m", "l">>, <<"m", "o", "n", "g", "o", "d", "b">>,
     <<"m", "y", "s", "q", "l">>, <<"n", "e", "o", "4", "j">>,
     <<"n", "e", "x", "t", ".", "j", "s">>, <<"n", "g", "i", "n", "x">>,
     <<"n", "l", "p">>, <<"n", "o", "d", "e", ".", "j", "s">>,
     <<"n", "o", "d", "e", "j", "s">>, <<"n", "o", "s", "q", "l">>,
     <<"n", "u", "m", "p", "y">>, <<"o", "a", "u", "t", "h">>,
     <<"o", "b", "j", "e", "c", "t", "i", "v", "e", "-", "c">>,
     <<"o", "r", "a", "c", "l", "e">>,
     <<"p", "a", "i", "r", " ", "p", "r", "o", "g", "r", "a", "m", "m", "i", "n", "g">>,
     <<"p", "a", "n", "d", "a", "s">>, <<"p", "e", "r", "l">>,
     <<"p", "h", "p">>,
     <<"p", "o", "s", "t", "g", "r", "e", "s", "q", "l">>,
     <<"p", "o", "w", "e", "r", "b", "i">>,
     <<"p", "o", "w", "e", "r", "p", "o", "i", "n", "t">>,
     <<"p", "o", "w", "e", "r", "s", "h", "e", "l", "l">>,
     <<"p", "y", "t", "h", "o", "n">>,
     <<"p", "y", "t", "o", "r", "c", "h">>, <<"q", "l", "i", "k">>, <<"r">>,
     <<"r", "a", "i", "l", "s">>, <<"r", "d", "s">>,
     <<"r", "e", "a", "c", "t">>, <<"r", "e", "d", "i", "s">>,
     <<"r", "e", "d", "s", "h", "i", "f", "t">>, <<"r", "e", "s", "t">>,
     <<"r", "u", "b", "y">>, <<"r", "u", "s", "t">>, <<"s", "3">>,
     <<"s", "a", "g", "e", "m", "a", "k", "e", "r">>,
     <<"s", "a", "l", "e", "s", "f", "o", "r", "c", "e">>,
     <<"s", "a", "m", "l">>, <<"s", "a", "p">>, <<"s", "a", "s", "s">>,
     <<"s", "c", "a", "l", "a">>,
     <<"s", "c", "i", "k", "i", "t", "-", "l", "e", "a", "r", "n">>,
     <<"s", "c", "i", "p", "y">>, <<"s", "c", "r", "u", "m">>,
     <<"s", "e", "c", "u", "r", "i", "t", "y">>,
     <<"s", "e", "r", "v", "e", "r", "l", "e", "s", "s">>,
     <<"s", "e", "r", "v", "i", "c", "e", "n", "o", "w">>,
     <<"s", "h", "a", "r", "e", "p", "o", "i", "n", "t">>,
     <<"s", "l", "a", "c", "k">>,
     <<"s", "n", "o", "w", "f", "l", "a", "k", "e">>,
     <<"s", "p", "a", "r", "k">>, <<"s", "p", "r", "i", "n", "g">>,
     <<"s", "q", "l">>, <<"s", "q", "l", "i", "t", "e">>,
     <<"s", "q", "l", "s", "e", "r", "v", "e", "r">>, <<"s", "s", "o">>,
     <<"s", "w", "i", "f", "t">>, <<"t", "a", "b", "l", "e", "a", "u">>,
     <<"t", "d", "d">>,
     <<"t", "e", "n", "s", "o", "r", "f", "l", "o", "w">>,
     <<"t", "e", "r", "r", "a", "f", "o", "r", "m">>,
     <<"t", "r", "a", "n", "s", "f", "o", "r", "m", "e", "r", "s">>,
     <<"t", "y", "p", "e", "s", "c", "r", "i", "p", "t">>,
     <<"u", "n", "i", "x">>, <<"v", "b", ".", "n", "e", "t">>,
     <<"v", "u", "e">>, <<"w", "a", "t", "e", "r", "f", "a", "l", "l">>,
     <<"w", "e", "b", "p", "a", "c", "k">>,
     <<"w", "o", "r", "k", "d", "a", "y">>, <<"x", "m", "l">>,
     <<"y", "a", "m", "l">>}

\* services.py 246-265
ATS_ACTION_VERBS ==
    {<<"a", "c", "c", "e", "l", "e", "r", "a", "t", "e", "d">>,
     <<"a", "c", "h", "i", "e", "v", "e", "d">>,
     <<"a", "d", "m", "i", "n", "i", "s", "t", "e", "r", "e", "d">>,
     <<"a", "d", "v", "i", "s", "e", "d">>,
     <<"a", "n", "a", "l", "y", "z", "e", "d">>,
     <<"a", "r", "c", "h", "i", "t", "e", "c", "t", "e", "d">>,
     <<"a", "s", "s", "e", "s", "s", "e", "d">>,
     <<"a", "u", "t", "o", "m", "a", "t", "e", "d">>,
     <<"b", "u", "i", "l", "t">>, <<"c", "o", "a", "c", "h", "e", "d">>,
     <<"c", "o", "l", "l", "a", "b", "o", "r", "a", "t", "e", "d">>,
     <<"c", "o", "m", "m", "u", "n", "i", "c", "a", "t", "e", "d">>,
     <<"c", "o", "n", "f", "i", "g", "u", "r", "e", "d">>,
     <<"c", "o", "n", "s", "u", "l", "t", "e", "d">>,
     <<"c", "o", "o", "r", "d", "i", "n", "a", "t", "e", "d">>,
     <<"c", "r", "e", "a", "t", "e", "d">>,
     <<"d", "e", "c", "r", "e", "a", "s", "e", "d">>,
     <<"d", "e", "l", "e", "g", "a", "t", "e", "d">>,
     <<"d", "e", "l", "i", "v", "e", "r", "e", "d">>,
     <<"d", "e", "p", "l", "o", "y", "e", "d">>,
     <<"d", "e", "s", "i", "g", "n", "e", "d">>,
     <<"d", "e", "v", "e", "l", "o", "p", "e", "d">>,
     <<"d", "i", "a", "g", "n", "o", "s", "e", "d">>,
     <<"d", "i", "r", "e", "c", "t", "e", "d">>,
     <<"e", "n", "g", "i", "n", "e", "e", "r", "e", "d">>,
     <<"e", "n", "h", "a", "n", "c", "e", "d">>,
     <<"e", "s", "t", "a", "b", "l", "i", "s", "h", "e", "d">>,
     <<"e", "v", "a", "l", "u", "a", "t", "e", "d">>,
     <<"e", "x", "c", "e", "e", "d", "e", "d">>,
     <<"e", "x", "e", "c", "u", "t", "e", "d">>,
     <<"f", "a", "c", "i", "l", "i", "t", "a", "t", "e", "d">>,
     <<"f", "o", "r", "e", "c", "a", "s", "t", "e", "d">>,
     <<"g", "u", "i", "d", "e", "d">>,
     <<"i", "d", "e", "n", "t", "i", "f", "i", "e", "d">>,
     <<"i", "m", "p", "l", "e", "m", "e", "n", "t", "e", "d">>,
     <<"i", "m", "p", "r", "o", "v", "e", "d">>,
     <<"i", "n", "c", "r", "e", "a", "s", "e", "d">>,
     <<"i", "n", "f", "l", "u", "e", "n", "c", "e", "d">>,
     <<"i", "n", "n", "o", "v", "a", "t", "e", "d">>,
     <<"i", "n", "t", "e", "g", "r", "a", "t", "e", "d">>,
     <<"i", "n", "v", "e", "n", "t", "e", "d">>,
     <<"i", "n", "v", "e", "s", "t", "i", "g", "a", "t", "e", "d">>,
     <<"l", "a", "u", "n", "c", "h", "e", "d">>, <<"l", "e", "d">>,
     <<"m", "a", "i", "n", "t", "a", "i", "n", "e", "d">>,
     <<"m", "a", "n", "a", "g", "e", "d">>,
     <<"m", "e", "n", "t", "o", "r", "e", "d">>,
     <<"m", "o", "n", "i", "t", "o", "r", "e", "d">>,
     <<"n", "e", "g", "o", "t", "i", "a", "t", "e", "d">>,
     <<"o", "p", "e", "r", "a", "t", "e", "d">>,
     <<"o", "p", "t", "i", "m", "i", "z", "e", "d">>,
     <<"o", "r", "g", "a", "n", "i", "z", "e", "d">>,
     <<"o", "v", "e", "r", "s", "a", "w">>,
     <<"p", "a", "r", "t", "n", "e", "r", "e", "d">>,
     <<"p", "e", "r", "s", "u", "a", "d", "e", "d">>,
     <<"p", "i", "o", "n", "e", "e", "r", "e", "d">>,
     <<"p", "l", "a", "n", "n", "e", "d">>,
     <<"p", "r", "e", "s", "e", "n", "t", "e", "d">>,
     <<"r", "e", "c", "o", "m", "m", "e", "n", "d", "e", "d">>,
     <<"r", "e", "d", "u", "c", "e", "d">>,
     <<"r", "e", "s", "e", "a", "r", "c", "h", "e", "d">>,
     <<"r", "e", "s", "o", "l", "v", "e", "d">>,
     <<"s", "p", "e", "a", "r", "h", "e", "a", "d", "e", "d">>,
     <<"s", "t", "r", "a", "t", "e", "g", "i", "z", "e", "d">>,
     <<"s", "t", "r", "e", "a", "m", "l", "i", "n", "e", "d">>,
     <<"s", "u", "p", "e", "r", "v", "i", "s", "e", "d">>,
     <<"t", "r", "a", "i", "n", "e", "d">>,
     <<"t", "r", "a", "n", "s", "f", "o", "r", "m", "e", "d">>}

\* services.py 268-273
SOFT_SKILLS ==
    {<<"a", "d", "a", "p", "t", "a", "b", "i", "l", "i", "t", "y">>,
     <<"a", "n", "a", "l", "y", "t", "i", "c", "a", "l">>,
     <<"c", "o", "l", "l", "a", "b", "o", "r", "a", "t", "i", "o", "n">>,
     <<"c", "o", "m", "m", "u", "n", "i", "c", "a", "t", "i", "o", "n">>,
     <<"c", "o", "n", "f", "l", "i", "c", "t", " ", "r", "e", "s", "o", "l", "u", "t", "i", "o", "n">>,
     <<"c", "r", "e", "a", "t", "i", "v", "i", "t", "y">>,
     <<"c", "r", "i", "t", "i", "c", "a", "l", " ", "t", "h", "i", "n", "k", "i", "n", "g">>,
     <<"c", "r", "o", "s", "s", "-", "f", "u", "n", "c", "t", "i", "o", "n", "a", "l">>,
     <<"d", "e", "c", "i", "s", "i", "o", "n", "-", "m", "a", "k", "i", "n", "g">>,
     <<"l", "e", "a", "d", "e", "r", "s", "h", "i", "p">>,
     <<"n", "e", "g", "o", "t", "i", "a", "t", "i", "o", "n">>,
     <<"p", "r", "e", "s", "e", "n", "t", "a", "t", "i", "o", "n">>,
     <<"p", "r", "o", "b", "l", "e", "m", "-", "s", "o", "l", "v", "i", "n", "g">>,
     <<"p", "r", "o", "j", "e", "c", "t", " ", "m", "a", "n", "a", "g", "e", "m", "e", "n", "t">>,
     <<"s", "t", "a", "k", "e", "h", "o", "l", "d", "e", "r", " ", "m", "a", "n", "a", "g", "e", "m", "e", "n", "t">>,
     <<"s", "t", "r", "a", "t", "e", "g", "i", "c", " ", "t", "h", "i", "n", "k", "i", "n", "g">>,
     <<"t", "e", "a", "m", "w", "o", "r", "k">>,
     <<"t", "i", "m", "e", " ", "m", "a", "n", "a", "g", "e", "m", "e", "n", "t">>}

\* services.py 276-280
CERTIFICATIONS ==
    {<<"a", "w", "s", " ", "c", "e", "r", "t", "i", "f", "i", "e", "d">>,
     <<"a", "z", "u", "r", "e", " ", "c", "e", "r", "t", "i", "f", "i", "e", "d">>,
     <<"c", "c", "i", "e">>, <<"c", "c", "n", "a">>, <<"c", "c", "n", "p">>,
     <<"c", "e", "r", "t", "i", "f", "i", "e", "d", " ", "s", "c", "r", "u", "m", " ", "m", "a", "s", "t", "e", "r">>,
     <<"c", "f", "a">>, <<"c", "i", "s", "m">>, <<"c", "i", "s", "s", "p">>,
     <<"c", "k", "a">>, <<"c", "k", "a", "d">>,
     <<"c", "o", "m", "p", "t", "i", "a">>, <<"c", "p", "a">>,
     <<"c", "s", "m">>,
     <<"g", "c", "p", " ", "c", "e", "r", "t", "i", "f", "i", "e", "d">>,
     <<"i", "t", "i", "l">>, <<"m", "b", "a">>, <<"p", "h", ".", "d">>,
     <<"p", "h", "d">>, <<"p", "m", "i">>, <<"p", "m", "p">>,
     <<"s", "i", "x", " ", "s", "i", "g", "m", "a">>}

\* services.py 1419
education_keywords ==
    <<<<"b", "a", "c", "h", "e", "l", "o", "r">>,
      <<"m", "a", "s", "t", "e", "r">>, <<"p", "h", "d">>,
      <<"p", "h", ".", "d">>, <<"m", "b", "a">>,
      <<"d", "e", "g", "r", "e", "e">>, <<"b", ".", "s", ".">>,
      <<"m", ".", "s", ".">>>>

IsUpperLetter(c) == \E i \in 1..Len(UpperLetters) : UpperLetters[i] = c

IsLowerLetter(c) == \E i \in 1..Len(LowerLetters) : LowerLetters[i] = c

IsLetter(c) == IsUpperLetter(c) \/ IsLowerLetter(c)

IsSpace(c) == c \in {" ", "\n"}

\* the class [A-Za-z0-9\+#\./-]
IsTokenChar(c) == IsLetter(c) \/ IsDigit(c) \/ c \in {"+", "#", ".", "/", "-"}

\* re.findall(r"[A-Za-z][A-Za-z0-9\+#\./-]{1,}", text), from position i on
RECURSIVE FindTokens(_, _)
FindTokens(text, i) ==
    IF i >= Len(text) THEN <<>>
    ELSE IF IsLetter(text[i]) /\ IsTokenChar(text[i + 1])
    THEN LET end == CHOOSE j \in (i + 1)..Len(text) :
                        /\ \A k \in (i + 1)..j : IsTokenChar(text[k])
                        /\ j = Len(text) \/ ~IsTokenChar(text[j + 1])
         IN  <<SubSeq(text, i, end)>> \o FindTokens(text, end + 1)
    ELSE FindTokens(text, i + 1)

\* str.strip(chars) and str.lstrip(chars)
RECURSIVE LStripChars(_, _)
LStripChars(s, chars) ==
    IF s # <<>> /\ Head(s) \in chars THEN LStripChars(Tail(s), chars) ELSE s

RECURSIVE RStripChars(_, _)
RStripChars(s, chars) ==
    IF s # <<>> /\ s[Len(s)] \in chars
    THEN RStripChars(SubSeq(s, 1, Len(s) - 1), chars)
    ELSE s

StripChars(s, chars) == RStripChars(LStripChars(s, chars), chars)

\* str.isupper(): a cased character, and no lower-case one
isupper(s) ==
    /\ \E i \in 1..Len(s) : IsUpperLetter(s[i])
    /\ \A i \in 1..Len(s) : ~IsLowerLetter(s[i])

\* str.istitle(): a cased character, upper case only after an uncased
\* character and lower case only after a cased one
istitle(s) ==
    /\ \E i \in 1..Len(s) : IsLetter(s[i])
    /\ \A i \in 1..Len(s) :
          /\ IsUpperLetter(s[i]) => (i = 1 \/ ~IsLetter(s[i - 1]))
          /\ IsLowerLetter(s[i]) => (i > 1 /\ IsLetter(s[i - 1]))

\* services.py 1364
CleanToken(token) ==
    Lower(StripChars(token, {" ", ".", ",", ";", ":", "(", ")", "[", "]", "{", "}"}))

\* services.py 1363-1373
IsKeywordToken(token) ==
    LET token_clean == CleanToken(token)
    IN  /\ Len(token_clean) >= 2
        /\ token_clean \notin STOPWORDS
        /\ \/ token_clean \in TECH_KEYWORDS
           \/ token_clean \in ATS_ACTION_VERBS
           \/ token_clean \in SOFT_SKILLS
           \/ istitle(token)
           \/ isupper(token)

\* services.py 1349-1375.  The certifications come in the order of a set;
\* every caller sorts what it keeps, and they are written sorted here.
_extract_keywords(text) ==
    LET certifications == {cert \in CERTIFICATIONS : Contains(Lower(text), cert)}
        kept == SelectSeq(FindTokens(text, 1), IsKeywordToken)
    IN  SortedSet(certifications) \o [i \in 1..Len(kept) |-> CleanToken(kept[i])]

\* str.splitlines() on "\n"
splitlines(text) ==
    LET parts == SplitLines(text, <<>>)
    IN  IF parts[Len(parts)] = <<>> THEN SubSeq(parts, 1, Len(parts) - 1) ELSE parts

\* "\n".join(lines)
RECURSIVE JoinLinesOf(_)
JoinLinesOf(lines) ==
    IF lines = <<>> THEN <<>>
    ELSE IF Len(lines) = 1 THEN lines[1]
    ELSE lines[1] \o <<"\n">> \o JoinLinesOf(Tail(lines))

\* the literal w stands in s at position i
StartsAt(s, i, w) ==
    /\ i >= 1
    /\ i + Len(w) - 1 <= Len(s)
    /\ \A k \in 1..Len(w) : s[i + k - 1] = w[k]

\* the position after the white space that starts at position i
RECURSIVE SkipSpaces(_, _)
SkipSpaces(s, i) ==
    IF i <= Len(s) /\ IsSpace(s[i]) THEN SkipSpaces(s, i + 1) ELSE i

\* the position after the digits that start at position i
RECURSIVE SkipDigits(_, _)
SkipDigits(s, i) ==
    IF i <= Len(s) /\ IsDigit(s[i]) THEN SkipDigits(s, i + 1) ELSE i

\* (?:years?|yrs?) at position i: the position after it, 0 without a match
AfterYears(s, i) ==
    IF StartsAt(s, i, <<"y", "e", "a", "r", "s">>) THEN i + 5
    ELSE IF StartsAt(s, i, <<"y", "e", "a", "r">>) THEN i + 4
    ELSE IF StartsAt(s, i, <<"y", "r", "s">>) THEN i + 3
    ELSE IF StartsAt(s, i, <<"y", "r">>) THEN i + 2
    ELSE 0

\* \s+ at position i: the position after it, 0 without a match
AfterSpaces(s, i) == IF i >= 1 /\ i <= Len(s) /\ IsSpace(s[i]) THEN SkipSpaces(s, i) ELSE 0

\* (\d+)\+?\s*(?:years?|yrs?)(?:\s+of)?\s+(?:experience|exp) matches at i
YearsOfExperienceAt(s, i) ==
    LET after_digits == SkipDigits(s, i)
        after_plus == IF StartsAt(s, after_digits, <<"+">>)
                      THEN after_digits + 1 ELSE after_digits
        after_years == AfterYears(s, SkipSpaces(s, after_plus))
        after_space == AfterSpaces(s, after_years)
    IN  /\ after_digits > i
        /\ i = 1 \/ ~IsDigit(s[i - 1])
        /\ after_years # 0
        /\ after_space # 0
        /\ \/ StartsAt(s, after_space, <<"e", "x", "p">>)
           \/ /\ StartsAt(s, after_space, <<"o", "f">>)
              /\ StartsAt(s, AfterSpaces(s, after_space + 2), <<"e", "x", "p">>)

\* the digits of a match of  lead \s+ (?:of\s+)? (\d+) \s+ (?:years?|yrs?)  at
\* i, <<>> without a match; the pattern "at least" takes no "of"
DigitsAfterLead(s, i, lead, may_have_of) ==
    LET after_lead == AfterSpaces(s, i + Len(lead))
        digits_from == IF may_have_of /\ StartsAt(s, after_lead, <<"o", "f">>)
                          /\ AfterSpaces(s, after_lead + 2) # 0
                       THEN AfterSpaces(s, after_lead + 2)
                       ELSE after_lead
        after_digits == SkipDigits(s, digits_from)
    IN  IF /\ StartsAt(s, i, lead)
           /\ after_lead # 0
           /\ after_digits > digits_from
           /\ AfterYears(s, AfterSpaces(s, after_digits)) # 0
        THEN SubSeq(s, digits_from, after_digits - 1)
        ELSE <<>>

\* services.py 1406-1416: the set of "N+ years" entries
years_experience(text_lower) ==
    LET PlusYears(digits) == digits \o <<"+", " ", "y", "e", "a", "r", "s">>
    IN  {PlusYears(SubSeq(text_lower, i, SkipDigits(text_lower, i) - 1)) :
            i \in {j \in 1..Len(text_lower) : YearsOfExperienceAt(text_lower, j)}}
        \cup
        {PlusYears(DigitsAfterLead(text_lower, i,
                                   <<"m", "i", "n", "i", "m", "u", "m">>, TRUE)) :
            i \in {j \in 1..Len(text_lower) :
                      DigitsAfterLead(text_lower, j,
                                      <<"m", "i", "n", "i", "m", "u", "m">>, TRUE) # <<>>}}
        \cup
        {PlusYears(DigitsAfterLead(text_lower, i,
                                   <<"a", "t", " ", "l", "e", "a", "s", "t">>, FALSE)) :
            i \in {j \in 1..Len(text_lower) :
                      DigitsAfterLead(text_lower, j,
                                      <<"a", "t", " ", "l", "e", "a", "s", "t">>, FALSE) # <<>>}}

\* line.strip().lstrip("-*•· ")
StripBulletMark(line) == LStripChars(Strip(line), {"-", "*", " "})

\* services.py 1418-1426: for each education keyword of the text, the first
\* line that holds it
education_lines(job_description) ==
    LET lines == splitlines(job_description)
        FirstWith(edu_kw) ==
            lines[CHOOSE i \in 1..Len(lines) :
                     /\ Contains(Lower(lines[i]), edu_kw)
                     /\ \A j \in 1..(i - 1) : ~Contains(Lower(lines[j]), edu_kw)]
    IN  {StripBulletMark(FirstWith(education_keywords[k])) :
            k \in {n \in 1..Len(education_keywords) :
                      Contains(Lower(job_description), education_keywords[n])}}

ContainsAny(text, words) == \E w \in words : Contains(text, w)

ResponsibilityHeaders ==
    {<<"r", "e", "s", "p", "o", "n", "s", "i", "b", "i", "l">>, <<"d", "u", "t", "i", "e", "s">>, <<"y", "o", "u", " ", "w", "i", "l", "l">>}

QualificationHeaders ==
    {<<"q", "u", "a", "l", "i", "f", "i", "c", "a", "t", "i", "o", "n">>, <<"r", "e", "q", "u", "i", "r", "e", "m", "e", "n", "t", "s">>, <<"m", "u", "s", "t", " ", "h", "a", "v", "e">>}

SkillHeaders ==
    {<<"s", "k", "i", "l", "l">>, <<"t", "e", "c", "h", "n", "o", "l", "o", "g">>, <<"t", "o", "o", "l", "s">>, <<"p", "r", "o", "f", "i", "c", "i", "e", "n", "c">>}

RequiredSectionWords ==
    {<<"r", "e", "q", "u", "i", "r", "e", "d">>, <<"m", "u", "s", "t">>}

PreferredSectionWords ==
    {<<"p", "r", "e", "f", "e", "r", "r", "e", "d">>, <<"n", "i", "c", "e", " ", "t", "o", " ", "h", "a", "v", "e">>}

PreferredWords ==
    {<<"p", "r", "e", "f", "e", "r", "r", "e", "d">>, <<"n", "i", "c", "e", " ", "t", "o", " ", "h", "a", "v", "e">>, <<"b", "o", "n", "u", "s">>, <<"p", "l", "u", "s">>}

SkillPreferredWords ==
    {<<"p", "r", "e", "f", "e", "r", "r", "e", "d">>, <<"n", "i", "c", "e", " ", "t", "o", " ", "h", "a", "v", "e">>, <<"b", "o", "n", "u", "s">>}

RequiredWords ==
    {<<"r", "e", "q", "u", "i", "r", "e", "d">>, <<"m", "u", "s", "t">>, <<"e", "s", "s", "e", "n", "t", "i", "a", "l">>}

\* the locals of the loop of services.py 1428-1488 before its first line
ExtractionStart ==
    [current_bucket |-> "responsibilities",
     is_required_section |-> FALSE,
     is_preferred_section |-> FALSE,
     skill_candidates |-> {},
     keyword_candidates |-> {},
     required_skills |-> {},
     preferred_skills |-> {},
     qualifications |-> <<>>,
     responsibilities |-> <<>>,
     action_verbs |-> {}]

\* services.py 1429-1488: one line of the description
ExtractionStep(st, raw_line) ==
    LET line == Strip(raw_line)
        lowered == Lower(line)
        bullet == StripBulletMark(line)
        extracted_keywords == Range(_extract_keywords(bullet))
        line_is_required == ContainsAny(lowered, RequiredWords)
        line_is_preferred == ContainsAny(lowered, PreferredWords)
    IN  IF line = <<>> THEN st
        ELSE IF ContainsAny(lowered, ResponsibilityHeaders)
        THEN [st EXCEPT !.current_bucket = "responsibilities",
                        !.is_required_section = FALSE,
                        !.is_preferred_section = FALSE]
        ELSE IF ContainsAny(lowered, QualificationHeaders)
        THEN [st EXCEPT !.current_bucket = "qualifications",
                        !.is_required_section = ContainsAny(lowered, RequiredSectionWords),
                        !.is_preferred_section = ContainsAny(lowered, PreferredSectionWords)]
        ELSE IF ContainsAny(lowered, SkillHeaders)
        THEN [st EXCEPT !.current_bucket = "skills",
                        !.is_required_section = ContainsAny(lowered, RequiredSectionWords),
                        !.is_preferred_section = ContainsAny(lowered, SkillPreferredWords)]
        ELSE IF ContainsAny(lowered, PreferredWords)
        THEN [st EXCEPT !.is_preferred_section = TRUE,
                        !.is_required_section = FALSE]
        ELSE IF st.current_bucket = "skills"
        THEN [st EXCEPT
                !.skill_candidates = @ \cup extracted_keywords,
                !.required_skills =
                    IF line_is_required
                          \/ (st.is_required_section /\ ~st.is_preferred_section)
                    THEN @ \cup extracted_keywords ELSE @,
                !.preferred_skills =
                    IF ~(line_is_required
                            \/ (st.is_required_section /\ ~st.is_preferred_section))
                          /\ (line_is_preferred \/ st.is_preferred_section)
                    THEN @ \cup extracted_keywords ELSE @]
        ELSE IF st.current_bucket = "qualifications"
        THEN [st EXCEPT
                !.qualifications = Append(@, bullet),
                !.keyword_candidates = @ \cup extracted_keywords,
                !.required_skills =
                    IF line_is_required \/ st.is_required_section
                    THEN @ \cup extracted_keywords ELSE @,
                !.preferred_skills =
                    IF ~(line_is_required \/ st.is_required_section)
                          /\ (line_is_preferred \/ st.is_preferred_section)
                    THEN @ \cup extracted_keywords ELSE @]
        ELSE [st EXCEPT
                !.responsibilities = Append(@, bullet),
                !.keyword_candidates = @ \cup extracted_keywords,
                !.action_verbs =
                    @ \cup {verb \in ATS_ACTION_VERBS : Contains(lowered, verb)}]

RECURSIVE ExtractionLoop(_, _)
ExtractionLoop(st, lines) ==
    IF lines = <<>> THEN st
    ELSE ExtractionLoop(ExtractionStep(st, Head(lines)), Tail(lines))

\* services.py 1377-1506: the records the call can return, one for each
\* order list(set(...)) can give the education entries
_extract_job_requirements(job_description) ==
    IF job_description = <<>>
    THEN {[skills |-> <<>>, qualifications |-> <<>>, responsibilities |-> <<>>,
           keywords |-> <<>>, required_skills |-> <<>>, preferred_skills |-> <<>>,
           certifications |-> <<>>, action_verbs |-> <<>>,
           years_experience |-> <<>>, education |-> <<>>]}
    ELSE
        LET st == ExtractionLoop(ExtractionStart, splitlines(job_description))
        IN  {[skills |-> SortedSet(st.skill_candidates),
              qualifications |-> st.qualifications,
              responsibilities |-> st.responsibilities,
              keywords |-> SortedSet(st.keyword_candidates \cup st.skill_candidates),
              required_skills |-> SortedSet(st.required_skills),
              preferred_skills |-> SortedSet(st.preferred_skills),
              certifications |->
                  SortedSet({cert \in CERTIFICATIONS :
                                Contains(Lower(job_description), cert)}),
              action_verbs |-> SortedSet(st.action_verbs),
              years_experience |-> SortedSet(years_experience(Lower(job_description))),
              education |-> education]
             : education \in Orderings(education_lines(job_description))}

\* the description of the example of C16
ExampleDescription ==
    <<"R", "e", "q", "u", "i", "r", "e", "d", ":", " ", "P", "y", "t", "h",
    "o", "n", ",", " ", "S", "Q", "L", ".", " ", "R", "e", "s", "p", "o",
    "n", "s", "i", "b", "i", "l", "i", "t", "i", "e", "s", ":", " ", "B",
    "u", "i", "l", "d", " ", "E", "T", "L", " ", "p", "i", "p", "e", "l",
    "i", "n", "e", "s", ".">>

\* the lines a description is made of: headers, content with and without a
\* cue, a bullet with an action verb, years, education, a blank line
DescriptionLines ==
    {ExampleDescription,
     <<"R", "e", "q", "u", "i", "r", "e", "d", " ", "s", "k", "i", "l", "l", "s", ":">>,
     <<"P", "r", "e", "f", "e", "r", "r", "e", "d", " ", "s", "k", "i", "l", "l", "s", ":">>,
     <<"Q", "u", "a", "l", "i", "f", "i", "c", "a", "t", "i", "o", "n", "s", ":">>,
     <<"P", "y", "t", "h", "o", "n", ",", " ", "S", "Q", "L">>,
     <<"P", "y", "t", "h", "o", "n", " ", "r", "e", "q", "u", "i", "r", "e", "d">>,
     <<"D", "o", "c", "k", "e", "r", " ", "p", "r", "e", "f", "e", "r", "r", "e", "d">>,
     <<"B", "u", "i", "l", "d", " ", "E", "T", "L", " ", "p", "i", "p", "e", "l", "i", "n", "e", "s">>,
     <<"-", " ", "L", "e", "d", " ", "S", "Q", "L", " ", "w", "o", "r", "k">>,
     <<"5", "+", " ", "y", "e", "a", "r", "s", " ", "o", "f", " ", "e", "x", "p", "e", "r", "i", "e", "n", "c", "e">>,
     <<"B", "a", "c", "h", "e", "l", "o", "r", " ", "d", "e", "g", "r", "e", "e", ",", " ", "P", "M", "P">>,
     <<"M", "B", "A", " ", "w", "e", "l", "c", "o", "m", "e">>,
     <<>>}

Descriptions ==
    {JoinLinesOf(lines) : lines \in SeqsUpTo(DescriptionLines, MaxDescriptionLines)}

ExtractionArguments ==
    [fn : {"_extract_job_requirements"}, job_description : Descriptions]

(***************************************************************************)
(* Snippet selection: _collect_experience_snippets,                        *)
(* _build_snippet_from_entry, _infer_bucket_from_entry and _score_snippet  *)
(* (services.py 1552-1672).                                                *)
(*                                                                         *)
(* An entry of the experience graph is a record; a text field that is      *)
(* absent, None or "" is the empty string (the code reads each of them     *)
(* with "or").  The empty dict is EmptyEntry.  A score is a fraction.  Of  *)
(* a snippet the fields that selection reads are kept.                     *)
(***************************************************************************)
MaxEntries == 4
MAX_SNIPPETS_PER_BUCKET == 3

EmptyEntry == [empty |-> TRUE]

LeadershipTitles ==
    {<<"p", "r", "e", "s", "i", "d", "e", "n", "t">>, <<"c", "h", "a", "i", "r">>, <<"c", "a", "p", "t", "a", "i", "n">>, <<"l", "e", "a", "d">>}

ProjectTitles ==
    {<<"p", "r", "o", "j", "e", "c", "t">>, <<"c", "a", "p", "s", "t", "o", "n", "e">>, <<"h", "a", "c", "k", "a", "t", "h", "o", "n">>}

\* services.py 1615-1630
_infer_bucket_from_entry(entry) ==
    LET entry_type == Lower(IF entry.bucket # <<>> THEN entry.bucket ELSE entry.type)
        title == Lower(entry.title)
    IN  IF Contains(entry_type, <<"l", "e", "a", "d">>) \/ entry.is_leadership
        THEN "Leadership"
        ELSE IF Contains(entry_type, <<"p", "r", "o", "j", "e", "c", "t">>)
        THEN "Projects"
        ELSE IF Contains(entry_type, <<"s", "k", "i", "l", "l">>)
        THEN "Skills & Tools"
        ELSE IF ContainsAny(title, LeadershipTitles)
        THEN "Leadership"
        ELSE IF ContainsAny(title, ProjectTitles)
        THEN "Projects"
        ELSE "Professional Experience"

\* [str(item).strip() for item in items if str(item).strip()]
StrippedNonEmpty(items) ==
    LET NonBlank(item) == Strip(item) # <<>>
        kept == SelectSeq(items, NonBlank)
    IN  [i \in 1..Len(kept) |-> Strip(kept[i])]

\* services.py 1583-1612; None for the empty dict
_build_snippet_from_entry(entry) ==
    IF entry = EmptyEntry THEN [none |-> TRUE]
    ELSE [none |-> FALSE,
          snippet_id |-> entry.id,
          bucket |-> _infer_bucket_from_entry(entry),
          title |-> IF entry.title # <<>> THEN entry.title
                    ELSE <<"E", "x", "p", "e", "r", "i", "e", "n", "c", "e">>,
          achievements |->
              LET stripped == StrippedNonEmpty(entry.achievements)
              IN  SubSeq(stripped, 1, Min(Len(stripped), 6)),
          skills |-> StrippedNonEmpty(entry.skills),
          source_ref |-> entry]

LowerSet(items) == {Lower(items[i]) : i \in 1..Len(items)}

\* services.py 1650-1672
_score_snippet(snippet, requirements) ==
    LET job_keywords == LowerSet(requirements.keywords)
        required_skills == LowerSet(requirements.required_skills)
        preferred_skills == LowerSet(requirements.preferred_skills)
        snippet_skills == LowerSet(snippet.skills)
        achievement_text == Lower(JoinWithSpace(snippet.achievements))
    IN  Fraction(
            12 * Cardinality(snippet_skills \cap required_skills)
            + 6 * Cardinality(snippet_skills \cap preferred_skills)
            + 3 * Cardinality(snippet_skills \cap job_keywords)
            + 2 * Cardinality({kw \in job_keywords :
                                  kw # <<>> /\ Contains(achievement_text, kw)})
            + (IF snippet.bucket = "Leadership" THEN 4 ELSE 0)
            + (IF snippet.bucket = "Projects" THEN 2 ELSE 0)
            + (IF snippet.source_ref.current THEN 3 ELSE 0),
            2)

\* A plausible slip: the pairs are sorted from the lowest score up.
RECURSIVE SortByScore_ascending(_)
SortByScore_ascending(items) ==
    IF items = <<>> THEN <<>>
    ELSE LET rest == SortByScore_ascending(SubSeq(items, 1, Len(items) - 1))
             last == items[Len(items)]
             before == Cardinality({i \in 1..Len(rest) :
                                       ~FractionLess(last.score, rest[i].score)})
         IN  SubSeq(rest, 1, before) \o <<last>> \o SubSeq(rest, before + 1, Len(rest))

\* sorted(items, key=lambda pair: pair[0], reverse=True): from the highest
\* score down, pairs of one score staying in the order they came in
RECURSIVE SortByScore(_)
SortByScore(items) ==
    IF items = <<>> THEN <<>>
    ELSE LET rest == SortByScore(SubSeq(items, 1, Len(items) - 1))
             last == items[Len(items)]
             before == Cardinality({i \in 1..Len(rest) :
                                       ~FractionLess(rest[i].score, last.score)})
         IN  SubSeq(rest, 1, before) \o <<last>> \o SubSeq(rest, before + 1, Len(rest))

\* services.py 1562-1564
raw_entries(experience_graph) ==
    experience_graph.experiences \o experience_graph.leadership
        \o experience_graph.projects \o experience_graph.activities

\* services.py 1566-1572: the scored snippets, in the order of the entries
ScoredSnippets(entries, requirements) ==
    LET Built(entry) == entry # EmptyEntry
        kept == SelectSeq(entries, Built)
    IN  [i \in 1..Len(kept) |->
            [score |-> _score_snippet(_build_snippet_from_entry(kept[i]), requirements),
             snippet |-> _build_snippet_from_entry(kept[i])]]

\* the buckets of snippet_candidates in the order the dict got them
RECURSIVE BucketsInOrder(_, _)
BucketsInOrder(scored, seen) ==
    IF scored = <<>> THEN <<>>
    ELSE IF Head(scored).snippet.bucket \in seen
    THEN BucketsInOrder(Tail(scored), seen)
    ELSE <<Head(scored).snippet.bucket>>
            \o BucketsInOrder(Tail(scored), seen \cup {Head(scored).snippet.bucket})

\* sorted_items[:limit_per_bucket] for a limit that is not negative
TopItems(sorted_items, limit_per_bucket) ==
    SubSeq(sorted_items, 1, Min(Len(sorted_items), limit_per_bucket))

\* services.py 1552-1581: the returned dict, as the sequence of its
\* [bucket, snippets] items
_collect_experience_snippets(experience_graph, requirements, limit_per_bucket) ==
    LET scored == ScoredSnippets(raw_entries(experience_graph), requirements)
        buckets == BucketsInOrder(scored, {})
        Selected(bucket) ==
            LET InBucket(pair) == pair.snippet.bucket = bucket
                top_items == TopItems(SortByScore(SelectSeq(scored, InBucket)),
                                      limit_per_bucket)
            IN  [bucket |-> bucket,
                 snippets |-> [i \in 1..Len(top_items) |-> top_items[i].snippet]]
        NotEmpty(item) == item.snippets # <<>>
    IN  SelectSeq([b \in 1..Len(buckets) |-> Selected(buckets[b])], NotEmpty)

\* the entries the bucket is inferred for: with and without a tag, with and
\* without a title that a heuristic knows
EntryTags ==
    {<<>>, <<"w", "o", "r", "k">>, <<"L", "e", "a", "d", "e", "r", "s", "h", "i", "p">>, <<"p", "r", "o", "j", "e", "c", "t">>, <<"s", "k", "i", "l", "l", "s">>}

EntryTitles ==
    {<<>>, <<"A", "n", "a", "l", "y", "s", "t">>, <<"T", "e", "a", "m", " ", "L", "e", "a", "d">>, <<"C", "a", "p", "s", "t", "o", "n", "e", " ", "P", "r", "o", "j", "e", "c", "t">>, <<"C", "l", "u", "b", " ", "P", "r", "e", "s", "i", "d", "e", "n", "t">>}

BucketEntries ==
    [empty : {FALSE}, id : {1}, bucket : {<<>>, <<"P", "r", "o", "j", "e", "c", "t", "s">>},
     type : EntryTags, title : EntryTitles, is_leadership : BOOLEAN,
     skills : {<<>>}, achievements : {<<>>}, current : {FALSE}]

BucketArguments == [fn : {"_infer_bucket_from_entry"}, entry : BucketEntries]

\* the kinds of entry a graph is made of: they differ in tag, skills,
\* achievements and the current flag
EntryKind(type, title, skills, achievements, current) ==
    [empty |-> FALSE, id |-> 0, bucket |-> <<>>, type |-> type, title |-> title,
     is_leadership |-> FALSE, skills |-> skills, achievements |-> achievements,
     current |-> current]

EntryKinds ==
    {EmptyEntry,
     EntryKind(<<"w", "o", "r", "k">>, <<"A", "n", "a", "l", "y", "s", "t">>, <<<<"P", "y", "t", "h", "o", "n">>>>, <<>>, FALSE),
     EntryKind(<<"w", "o", "r", "k">>, <<"A", "n", "a", "l", "y", "s", "t">>, <<<<"P", "y", "t", "h", "o", "n">>, <<"S", "Q", "L">>>>, <<>>, FALSE),
     EntryKind(<<"w", "o", "r", "k">>, <<"A", "n", "a", "l", "y", "s", "t">>, <<<<"P", "y", "t", "h", "o", "n">>, <<"p", "y", "t", "h", "o", "n", " ">>>>, <<>>, FALSE),
     EntryKind(<<"w", "o", "r", "k">>, <<"A", "n", "a", "l", "y", "s", "t">>, <<<<"P", "y", "t", "h", "o", "n">>>>, <<>>, TRUE),
     EntryKind(<<"w", "o", "r", "k">>, <<"A", "n", "a", "l", "y", "s", "t">>, <<<<"P", "y", "t", "h", "o", "n">>>>, <<<<"B", "u", "i", "l", "t", " ", "S", "Q", "L", " ", "s", "u", "i", "t", "e">>>>, FALSE),
     EntryKind(<<"p", "r", "o", "j", "e", "c", "t">>, <<"A", "n", "a", "l", "y", "s", "t">>, <<<<"P", "y", "t", "h", "o", "n">>>>, <<>>, FALSE)}

\* an entry gets the id of its place in the graph
Numbered(entries, offset) ==
    [i \in 1..Len(entries) |->
        IF entries[i] = EmptyEntry THEN EmptyEntry
        ELSE [entries[i] EXCEPT !.id = offset + i]]

\* the entries under "experiences", or the last of them under "projects"
GraphsOf(entries) ==
    {[experiences |-> Numbered(SubSeq(entries, 1, split), 0),
      leadership |-> <<>>,
      projects |-> Numbered(SubSeq(entries, split + 1, Len(entries)), split),
      activities |-> <<>>] :
        split \in {Len(entries), Max(Len(entries) - 1, 0)}}

ExperienceGraphs ==
    UNION {GraphsOf(entries) : entries \in SeqsUpTo(EntryKinds, MaxEntries)}

JobRequirements ==
    {[keywords |-> <<>>, required_skills |-> <<>>, preferred_skills |-> <<>>],
     [keywords |-> <<<<"p", "y", "t", "h", "o", "n">>>>, required_skills |-> <<<<"p", "y", "t", "h", "o", "n">>>>, preferred_skills |-> <<>>],
     [keywords |-> <<<<"p", "y", "t", "h", "o", "n">>, <<"s", "q", "l">>>>, required_skills |-> <<<<"p", "y", "t", "h", "o", "n">>, <<"s", "q", "l">>>>, preferred_skills |-> <<>>],
     [keywords |-> <<<<"s", "q", "l">>>>, required_skills |-> <<>>, preferred_skills |-> <<<<"s", "q", "l">>>>]}

CollectArguments ==
    {[fn |-> "_collect_experience_snippets",
      experience_graph |-> experience_graph,
      requirements |-> requirements,
      limit_per_bucket |-> MAX_SNIPPETS_PER_BUCKET] :
        experience_graph \in ExperienceGraphs,
        requirements \in JobRequirements}

(***************************************************************************)
(* Session lifecycle: process_tailoring_session (tasks.py 27-261) and the  *)
(* detail view with its stale-session rescue (frontend_views.py 48-65,     *)
(* 213-319).                                                               *)
(* The session row keeps what the handlers test or write: status, whether  *)
(* generated_bullets / generated_sections hold anything, the kind of the   *)
(* error message and updated_at.  created_at is 0 and time is counted in   *)
(* ticks.  A thread is a task invocation or a request to the detail view;  *)
(* it steps from one database access to the next, and its copy is the row  *)
(* it loaded.  did is the set of things the thread has done so far.        *)
(* tailoring_list (frontend_views.py 26-45) runs the same steps as the     *)
(* detail view; tailoring_delete is left out.                              *)
(***************************************************************************)
MaxWorkers == 2
MaxViews == 2
MaxClock == 2
PendingTimeout == 1
ProcessingTimeout == 1
MaxQuota == 2

Workers == {<<"task", i>> : i \in 1..MaxWorkers}

Viewers == {<<"view", i>> : i \in 1..MaxViews}

\* TailoringSession.objects.create(... status=PENDING ...)
\* (frontend_views.py 162-169) with the field defaults of models.py 45-67
NewSession ==
    [status |-> "PENDING", generated |-> FALSE, error |-> "", updated_at |-> 0]

NotLoaded == [status |-> "none", generated |-> FALSE, error |-> "", updated_at |-> 0]

NoResult == [tokens |-> 0, bullets |-> FALSE]

\* what run_workflow hands back as far as the task uses it: total_tokens of
\* token_usage and whether there is any bullet or section
PipelineResults == [tokens : {0, 1}, bullets : BOOLEAN]

ThreadAt(p, seen) ==
    [pc |-> p, copy |-> NotLoaded, seen |-> seen, did |-> {}, result |-> NoResult]

\* user.record_usage (accounts/models.py 47-64): the update is the one
\* statement tokens_used = tokens_used + tokens, made when tokens > 0
record_usage(user, tokens) ==
    IF tokens > 0
    THEN [user EXCEPT !.tokens_used = user.tokens_used + tokens]
    ELSE user

\* _mark_session_failed (frontend_views.py 295-319): the fields of
\* update_fields are written from the caller's copy
_mark_session_failed(row, message, at) ==
    [row EXCEPT !.status = "FAILED", !.error = message, !.updated_at = at]

\* tasks.py 58-61
ClaimedRow(row, at) ==
    [row EXCEPT !.status = "PROCESSING", !.error = "", !.updated_at = at]

\* tasks.py 120-202: the save writes the generated fields, status and
\* updated_at from the task's copy; error_message is not in update_fields
CompletedRow(row, result, at) ==
    [row EXCEPT !.status = "COMPLETED", !.generated = result.bullets,
                !.updated_at = at]

\* tasks.py 233-237 and 252-256: a fresh row is loaded under the lock
FailedRow(row, message, at) ==
    [row EXCEPT !.status = "FAILED", !.error = message, !.updated_at = at]

\* frontend_views.py 54-58: save(update_fields=['status'])
AutoCompleted(copy) ==
    copy.status \in {"PENDING", "PROCESSING"} /\ copy.generated

\* frontend_views.py 224-227
PendingIsStale(copy, at) ==
    copy.status = "PENDING" /\ at > PendingTimeout

\* frontend_views.py 239-242
ProcessingIsStale(copy, at) ==
    copy.status = "PROCESSING" /\ at - copy.updated_at > ProcessingTimeout

(***************************************************************************)
(* Token quota: check_and_increment_tokens (accounts/utils.py 8-23) and    *)
(* User.record_usage (accounts/models.py 47-64).  A caller holds the user  *)
(* object of its request; the check and the increment work on that object  *)
(* and the save writes its tokens_used.                                    *)
(***************************************************************************)
MaxCallers == 2
MaxCost == 2

Callers == {<<"call", i>> : i \in 1..MaxCallers}

NewUser(quota) == [tokens_used |-> 0, token_quota |-> quota]

NoUser == [tokens_used |-> 0, token_quota |-> 0]

\* accounts/utils.py 19-20
QuotaExceeded(user, cost) == user.tokens_used + cost > user.token_quota

\* accounts/utils.py 22
Incremented(user, cost) == [user EXCEPT !.tokens_used = user.tokens_used + cost]

CallerAt(p) ==
    [pc |-> p, copy |-> NoUser, cost |-> 0, before |-> 0, after |-> 0]

(***************************************************************************)
(* Idle values: what a specification leaves the other components'          *)
(* variables at.                                                           *)
(***************************************************************************)
PlanIdle ==
    /\ selected_snippets = <<>>
    /\ layout = <<>>
    /\ plan = [done |-> FALSE, entries |-> <<>>]

NormIdle ==
    /\ parameters = AllAbsent
    /\ normalized = NotNormalized
    /\ renormalized = NotNormalized

JsonIdle ==
    /\ response = NoReply
    /\ call_result = NotCalled

PipeIdle ==
    /\ request = NoRequest
    /\ pc = "idle"
    /\ sections = <<>>
    /\ flat_bullets = <<>>
    /\ bullet_details = <<>>
    /\ sections_to_fix = <<>>
    /\ flagged = <<>>
    /\ token_usage_totals = ZeroUsage
    /\ exchanges = <<>>
    /\ outcome = Running
    /\ session = ClaimedSession

HelperIdle ==
    /\ helper_args = NoArguments
    /\ helper_result = NotReturned

TaskIdle ==
    /\ db_session = NotLoaded
    /\ db_user = NoUser
    /\ threads = <<>>
    /\ now = 0

(***************************************************************************)
(* Specification of the section planner.                                   *)
(***************************************************************************)
InitPlan ==
    /\ selected_snippets \in SelectedSnippetMaps
    /\ layout \in Layouts
    /\ plan = [done |-> FALSE, entries |-> <<>>]
    /\ NormIdle
    /\ JsonIdle
    /\ PipeIdle
    /\ HelperIdle
    /\ TaskIdle

PlanSections ==
    /\ ~plan.done
    /\ plan' = [done |-> TRUE, entries |-> _plan_sections(selected_snippets, layout)]
    /\ UNCHANGED <<selected_snippets, layout>>
    /\ UNCHANGED <<normVars, jsonVars, pipeVars, helperVars, taskVars>>

NextPlan == PlanSections

SpecPlan == InitPlan /\ [][NextPlan]_vars

InitNorm ==
    /\ parameters \in ParameterInputs
    /\ normalized = NotNormalized
    /\ renormalized = NotNormalized
    /\ PlanIdle
    /\ JsonIdle
    /\ PipeIdle
    /\ HelperIdle
    /\ TaskIdle

\* tasks.py 104: the task normalizes the session's parameters
NormalizeInTask ==
    /\ normalized = NotNormalized
    /\ normalized' = normalize_parameters(parameters)
    /\ UNCHANGED <<parameters, renormalized>>
    /\ UNCHANGED <<planVars, jsonVars, pipeVars, helperVars, taskVars>>

\* services.py 328: run_workflow normalizes what the task hands it
NormalizeInWorkflow ==
    /\ normalized.status = "ok"
    /\ renormalized = NotNormalized
    /\ renormalized' = normalize_parameters(normalized.value)
    /\ UNCHANGED <<parameters, normalized>>
    /\ UNCHANGED <<planVars, jsonVars, pipeVars, helperVars, taskVars>>

NextNorm == NormalizeInTask \/ NormalizeInWorkflow

SpecNorm == InitNorm /\ [][NextNorm]_vars

(***************************************************************************)
(* C5: normalize_parameters is idempotent: normalizing a normalized set    *)
(* yields the same set on every key, also for a set that gives             *)
(* section_layout but no sections.  Refuted: the second pass finds the     *)
(* key sections present (the first pass filled it in) and overwrites       *)
(* section_layout with it.                                                 *)
(***************************************************************************)
C5_NormalizeIdempotent ==
    renormalized # NotNormalized => renormalized = normalized

(***************************************************************************)
(* Specification of one collaborator exchange.                             *)
(***************************************************************************)
InitJson ==
    /\ response \in Replies
    /\ call_result = NotCalled
    /\ PlanIdle
    /\ NormIdle
    /\ PipeIdle
    /\ HelperIdle
    /\ TaskIdle

CallOpenAIJson ==
    /\ call_result = NotCalled
    /\ call_result' = _call_openai_json(response)
    /\ UNCHANGED response
    /\ UNCHANGED <<planVars, normVars, pipeVars, helperVars, taskVars>>

NextJson == CallOpenAIJson

SpecJson == InitJson /\ [][NextJson]_vars

(***************************************************************************)
(* C6: every exchange made through _call_openai_json ends in one of two    *)
(* outcomes: a JSON object is returned, or a TailoringPipelineError is     *)
(* raised; no JSON value that is not an object is returned.                *)
(* Refuted: json.loads accepts an array or a scalar, and the code returns  *)
(* whatever json.loads returned.                                           *)
(***************************************************************************)
C6_ObjectOrTypedError ==
    call_result # NotCalled =>
        \/ call_result.status = "returned" /\ call_result.kind = "dict"
        \/ call_result.status = "raised" /\ call_result.exc = "TailoringPipelineError"


(***************************************************************************)
(* Specification of the tailoring pipeline: one run of run_workflow under  *)
(* process_tailoring_session, one step per exchange with the collaborator. *)
(***************************************************************************)
Init ==
    /\ request \in Requests
    /\ pc = "start"
    /\ sections = <<>>
    /\ flat_bullets = <<>>
    /\ bullet_details = <<>>
    /\ sections_to_fix = <<>>
    /\ flagged = <<>>
    /\ token_usage_totals = ZeroUsage
    /\ exchanges = <<>>
    /\ outcome = Running
    /\ session = ClaimedSession
    /\ PlanIdle
    /\ NormIdle
    /\ JsonIdle
    /\ HelperIdle
    /\ TaskIdle

\* the locals of _generate_resume_package after a step
Locals(p, secs, flat, details, fixes, flagged_items, totals) ==
    /\ pc' = p
    /\ sections' = secs
    /\ flat_bullets' = flat
    /\ bullet_details' = details
    /\ sections_to_fix' = fixes
    /\ flagged' = flagged_items
    /\ token_usage_totals' = totals

\* services.py 799-802 and 370, 447-470: the package is returned and
\* run_workflow returns; tasks.py 115-202: the session is saved
Returns(secs, flat, details, flagged_items, totals) ==
    /\ Locals("returned", secs, flat, details, <<>>, flagged_items, totals)
    /\ outcome' = [status |-> "returned",
                   sections |-> secs,
                   bullets |-> IF flat # <<>> THEN flat ELSE _flatten_sections(secs),
                   bullet_details |-> details,
                   token_usage |-> totals]
    /\ session' = [status |-> "completed", token_usage |-> totals]

\* a failure that is swallowed: the locals are returned as they are
Raises_swallowed(exc, totals) ==
    Returns(sections, flat_bullets, bullet_details, flagged, totals)

\* an exception leaves run_workflow: it carries a message only; tasks.py
\* 229-261 marks the session failed and saves status, error_message and
\* debug_log
Raises(exc, totals) ==
    /\ Locals("raised", sections, flat_bullets, bullet_details, sections_to_fix,
              flagged, totals)
    /\ outcome' = [status |-> "raised", exc |-> exc]
    /\ session' = [status |-> "failed", token_usage |-> session.token_usage]

\* services.py 785-797: the cover letter is written only when asked for
AfterGuardrails(secs, flat, details, flagged_items, totals) ==
    IF request.include_cover_letter
    THEN /\ Locals("cover", secs, flat, details, <<>>, flagged_items, totals)
         /\ UNCHANGED <<outcome, session>>
    ELSE Returns(secs, flat, details, flagged_items, totals)

\* services.py 753-767 with 1008-1009: without bullets there is no audit
AfterValidation(secs, flat, details, totals) ==
    IF details = <<>>
    THEN AfterGuardrails(secs, flat, details, <<>>, _merge_usage(totals, ZeroUsage))
    ELSE /\ Locals("audit", secs, flat, details, <<>>, <<>>, totals)
         /\ UNCHANGED <<outcome, session>>

\* run_workflow (services.py 325-326)
RejectMissingJob ==
    /\ pc = "start"
    /\ request.source = "none"
    /\ Raises("TailoringPipelineError", token_usage_totals)
    /\ UNCHANGED <<request, exchanges>>
    /\ UNCHANGED <<planVars, normVars, jsonVars, helperVars, taskVars>>

\* run_workflow (services.py 332-345) with _fetch_job_description_from_url
\* (2089-2221): the usage of the exchange is dropped and any failure gives
\* an empty description
FetchDescription ==
    /\ pc = "start"
    /\ request.source = "url"
    /\ \E reply \in FetchReplies :
          exchanges' = Append(exchanges, RoundTrip("fetch", "", 0, reply))
    /\ pc' = "generate"
    /\ UNCHANGED <<request, sections, flat_bullets, bullet_details, sections_to_fix,
                   flagged, token_usage_totals, outcome, session>>
    /\ UNCHANGED <<planVars, normVars, jsonVars, helperVars, taskVars>>

\* _generate_resume_package (services.py 656-734): the first exchange, the
\* parse of its reply and the list of sections to fix
GenerateInitial ==
    /\ \/ pc = "generate"
       \/ pc = "start" /\ request.source = "description"
    /\ \E reply \in ExchangeReplies :
          LET r == _call_openai_json(reply)
              totals == _merge_usage(token_usage_totals, _extract_usage(reply))
          IN  /\ exchanges' = Append(exchanges, RoundTrip("initial", "", 0, reply))
              /\ IF r.status = "raised" THEN Raises(r.exc, token_usage_totals)
                 ELSE IF r.kind # "dict" THEN Raises("AttributeError", totals)
                 ELSE \E raw_sections \in RawSectionLists :
                        LET parsed == _parse_resume_sections(raw_sections)
                            fixes == SectionsToFix(parsed.sections,
                                                   request.requested_sections,
                                                   request.bullets_per_section)
                        IN  IF fixes = <<>>
                            THEN AfterValidation(parsed.sections, parsed.flat_bullets,
                                                 parsed.bullet_details, totals)
                            ELSE /\ Locals("backfill", parsed.sections,
                                           parsed.flat_bullets, parsed.bullet_details,
                                           fixes, <<>>, totals)
                                 /\ UNCHANGED <<outcome, session>>
    /\ UNCHANGED request
    /\ UNCHANGED <<planVars, normVars, jsonVars, helperVars, taskVars>>

\* _validate_and_fix_sections (services.py 853-894) for one section to fix,
\* with _generate_single_section (911-998), which turns every failure into
\* an empty answer; after the last one, the reordering (896-909)
Backfill ==
    /\ pc = "backfill"
    /\ \E reply \in ExchangeReplies :
          LET r == _call_openai_json(reply)
              usable == r.status = "returned" /\ r.kind = "dict"
              fix_info == Head(sections_to_fix)
              bullet_count == NeededBullets(fix_info, request.bullets_per_section)
              section_usage == IF usable THEN _extract_usage(reply) ELSE ZeroUsage
              totals == _merge_usage(token_usage_totals, section_usage)
              n == FirstIndexOf([i \in 1..Len(request.requested_sections) |->
                                    [name |-> request.requested_sections[i]]],
                                fix_info.name)
          IN  /\ exchanges' = Append(exchanges,
                     RoundTrip("backfill", fix_info.name, bullet_count, reply))
              /\ \E returned \in (IF usable THEN 0..MaxBackfillBullets ELSE {0}) :
                    LET merged == MergeFix(sections, flat_bullets, bullet_details,
                                           fix_info, FixDetails(n, returned))
                    IN  IF Tail(sections_to_fix) = <<>>
                        THEN AfterValidation(
                                ReorderSections(merged.sections, request.requested_sections),
                                merged.flat_bullets, merged.bullet_details, totals)
                        ELSE /\ Locals("backfill", merged.sections, merged.flat_bullets,
                                       merged.bullet_details, Tail(sections_to_fix),
                                       <<>>, totals)
                             /\ UNCHANGED <<outcome, session>>
    /\ UNCHANGED request
    /\ UNCHANGED <<planVars, normVars, jsonVars, helperVars, taskVars>>

\* _apply_guardrails (services.py 1050-1108) up to the regeneration
\* exchange; when nothing is to be regenerated, the rest of the guardrail
\* step (753-767) as well
GuardrailAudit ==
    /\ pc = "audit"
    /\ \E reply \in ExchangeReplies :
          LET r == _call_openai_json(reply)
              guard_usage == _extract_usage(reply)
          IN  /\ exchanges' = Append(exchanges, RoundTrip("audit", "", 0, reply))
              /\ IF r.status = "raised" THEN Raises(r.exc, token_usage_totals)
                 ELSE IF r.kind # "dict" THEN Raises("AttributeError", token_usage_totals)
                 ELSE \E findings \in AuditFindings(bullet_details) :
                        LET flagged_items == FlaggedOf(findings, bullet_details)
                        IN  IF RegenerationRequests(flagged_items) = <<>>
                            THEN AfterGuardrails(sections, flat_bullets, bullet_details,
                                     flagged_items,
                                     _merge_usage(token_usage_totals,
                                                  _merge_usage(guard_usage, ZeroUsage)))
                            ELSE /\ Locals("regenerate", sections, flat_bullets,
                                           bullet_details, <<>>, flagged_items,
                                           token_usage_totals)
                                 /\ UNCHANGED <<outcome, session>>
    /\ UNCHANGED request
    /\ UNCHANGED <<planVars, normVars, jsonVars, helperVars, taskVars>>

\* _regenerate_bullets (services.py 1158-1180), the end of _apply_guardrails
\* (1099-1108) and the replacement of the bullets (760-783).  guard_usage is
\* the usage of the audit, the last round trip made.
Regenerate ==
    /\ pc = "regenerate"
    /\ \E reply \in ExchangeReplies :
          LET r == _call_openai_json(reply)
              guard_usage == exchanges[Len(exchanges)].spent
              combined_usage == _merge_usage(guard_usage, _extract_usage(reply))
              totals == _merge_usage(token_usage_totals, combined_usage)
          IN  /\ exchanges' = Append(exchanges, RoundTrip("regenerate", "", 0, reply))
              /\ IF r.status = "raised" THEN Raises(r.exc, token_usage_totals)
                 ELSE IF r.kind # "dict" THEN Raises("AttributeError", token_usage_totals)
                 ELSE \E replacements \in
                            RegenReplacements(RegenerationRequests(flagged)) :
                        LET updated_details ==
                                ApplyReplacements(BulletLookup(bullet_details), replacements)
                            composed == _compose_sections_from_details(updated_details)
                        IN  IF replacements = <<>>
                            THEN AfterGuardrails(sections, flat_bullets, bullet_details,
                                                 flagged, totals)
                            ELSE AfterGuardrails(composed, _flatten_sections(composed),
                                                 updated_details, flagged, totals)
    /\ UNCHANGED request
    /\ UNCHANGED <<planVars, normVars, jsonVars, helperVars, taskVars>>

\* _generate_cover_letter (services.py 1182-1223) and the end of
\* _generate_resume_package (785-802)
CoverLetter ==
    /\ pc = "cover"
    /\ \E reply \in ExchangeReplies :
          LET r == _call_openai_json(reply)
          IN  /\ exchanges' = Append(exchanges, RoundTrip("cover_letter", "", 0, reply))
              /\ IF r.status = "raised" THEN Raises(r.exc, token_usage_totals)
                 ELSE IF r.kind # "dict" THEN Raises("AttributeError", token_usage_totals)
                 ELSE Returns(sections, flat_bullets, bullet_details, flagged,
                              _merge_usage(token_usage_totals, _extract_usage(reply)))
    /\ UNCHANGED request
    /\ UNCHANGED <<planVars, normVars, jsonVars, helperVars, taskVars>>

Next ==
    \/ RejectMissingJob
    \/ FetchDescription
    \/ GenerateInitial
    \/ Backfill
    \/ GuardrailAudit
    \/ Regenerate
    \/ CoverLetter

Spec == Init /\ [][Next]_vars


\* the ways in which _call_openai_json raises TailoringPipelineError
FailureReasons == {"request-failed", "empty-output", "malformed-output"}

LastExchange == exchanges[Len(exchanges)]

\* the tokens spent on the round trips of a log, summed field by field
RECURSIVE SpentOn(_)
SpentOn(log) ==
    IF log = <<>> THEN ZeroUsage ELSE _merge_usage(SpentOn(Tail(log)), Head(log).spent)

SectionsNamed(secs, section_name) == {i \in 1..Len(secs) : secs[i].name = section_name}

(***************************************************************************)
(* C2: every requested section that was missing or under-populated after   *)
(* the initial generation holds exactly bullets_per_section bullets in the *)
(* final section list once its backfill exchange has succeeded, whatever   *)
(* number of bullets the collaborator returned.                            *)
(* Refuted: the bullets of the reply are appended as they come             *)
(* (services.py 872-880), fewer or more than asked for.                    *)
(***************************************************************************)
C2_BackfilledSectionIsFull ==
    pc = "returned" =>
        \A i \in 1..Len(exchanges) :
            exchanges[i].kind = "backfill" /\ exchanges[i].result = "dict" =>
                \E k \in SectionsNamed(outcome.sections, exchanges[i].section) :
                    Len(outcome.sections[k].bullets) = request.bullets_per_section

(***************************************************************************)
(* C3: a bullet the audit reports as reject is not in the final bullet     *)
(* list with its original text, unless the regeneration exchange failed;   *)
(* this includes a flagged bullet whose snippet id is empty or unknown and *)
(* one the regeneration reply does not mention.                            *)
(* Refuted: such bullets are left as they are (services.py 1137-1139,      *)
(* 771-772), and a failed regeneration raises, so that no list is returned.*)
(***************************************************************************)
C3_RejectedBulletIsReplaced ==
    pc = "returned" =>
        \A n \in 1..Len(flagged) :
            flagged[n].status = "reject" =>
                ~ \E d \in 1..Len(outcome.bullet_details) :
                     /\ outcome.bullet_details[d].id = flagged[n].bullet_id
                     /\ outcome.bullet_details[d].text = flagged[n].original_text

(***************************************************************************)
(* C4: when the audit or the regeneration exchange fails or returns        *)
(* unusable output, _generate_resume_package still returns a result.       *)
(* Refuted: nothing catches the exception of either exchange.              *)
(***************************************************************************)
C4_GuardrailsFailSoft ==
    /\ exchanges # <<>>
    /\ LastExchange.kind \in {"audit", "regenerate"}
    /\ LastExchange.result # "dict"
    => pc # "raised"

C8_UsageSurvivesFailure ==
    pc = "raised" /\ outcome.exc = "TailoringPipelineError" =>
        session.token_usage = token_usage_totals

(***************************************************************************)
(* C9: when run_workflow returns, each of prompt, completion and total     *)
(* tokens is the sum over every round trip made (description fetch,        *)
(* initial generation, backfills, audit, regeneration, cover letter).      *)
(* Refuted: the usage of the description fetch is dropped (services.py     *)
(* 2147), and so is that of a backfill whose reply was unusable.           *)
(***************************************************************************)
C9_UsageIsSumOfRoundTrips ==
    pc = "returned" => outcome.token_usage = SpentOn(exchanges)

(***************************************************************************)
(* C10: in the result of _generate_resume_package every bullet detail      *)
(* names a section of the final section list, and exactly one section      *)
(* carries that name.                                                      *)
(* Refuted: a replacement with an empty text removes the section but not   *)
(* the detail; two sections of one name stay two.                          *)
(***************************************************************************)
C10_DetailNamesOneSection ==
    pc = "returned" =>
        \A d \in 1..Len(outcome.bullet_details) :
            Cardinality(SectionsNamed(outcome.sections,
                                      outcome.bullet_details[d].section)) = 1


\* place of a name in the requested section list, 0 when it was not requested
RequestedPlace(section_name) ==
    IF \E i \in 1..Len(request.requested_sections) :
            request.requested_sections[i] = section_name
    THEN CHOOSE i \in 1..Len(request.requested_sections) :
            request.requested_sections[i] = section_name
    ELSE 0

(***************************************************************************)
(* C11: whatever order the collaborator returned the sections in, and      *)
(* whether or not a backfill was needed, the final section list has the    *)
(* requested sections in the requested order, followed by the unrequested  *)
(* ones.                                                                   *)
(* Refuted: without a section to fix the list is returned as parsed        *)
(* (services.py 848-850), and a replacement rebuilds it in the order of    *)
(* the reply (services.py 781, 1839-1842).                                 *)
(***************************************************************************)
C11_FinalOrderIsRequestedOrder ==
    pc = "returned" =>
        \A i, j \in 1..Len(outcome.sections) :
            i < j =>
                LET a == RequestedPlace(outcome.sections[i].name)
                    b == RequestedPlace(outcome.sections[j].name)
                IN  /\ b # 0 => a # 0
                    /\ a # 0 /\ b # 0 => a <= b


(***************************************************************************)
(* C12 (as stated): with requested sections ["Leadership"] and the single  *)
(* bucket "Projects" holding the snippet s1, _plan_sections returns one    *)
(* entry named "Leadership" with snippet_ids [s1] and use_full_pool true.  *)
(* Refuted: the bucket is consumed as the section's own snippets           *)
(* (services.py 1714-1717) and the entry is appended without the           *)
(* use_full_pool key (services.py 1742-1746).                              *)
(***************************************************************************)
LeadershipFromProjects ==
    /\ plan.done
    /\ layout = <<"Leadership">>
    /\ selected_snippets = <<[bucket |-> "Projects", snippets |-> <<"s1">>]>>

C12_LeadershipUsesFullPool ==
    LeadershipFromProjects =>
        plan.entries = <<[name |-> "Leadership", snippet_ids |-> <<"s1">>,
                          use_full_pool |-> TRUE]>>

(***************************************************************************)
(* C12 (amended): with requested sections ["Leadership"] and the single    *)
(* bucket "Projects" holding the snippet s1, _plan_sections returns        *)
(* exactly one entry, named "Leadership", with snippet_ids [s1] and        *)
(* without the use_full_pool flag: the next unused bucket supplies the     *)
(* section's snippets, the full pool is not involved.                      *)
(***************************************************************************)
C12_LeadershipTakesNextBucket ==
    LeadershipFromProjects =>
        plan.entries = <<[name |-> "Leadership", snippet_ids |-> <<"s1">>,
                          use_full_pool |-> FALSE]>>

C12_Witness ==
    /\ LeadershipFromProjects
    /\ Len(plan.entries) = 1
    /\ plan.entries[1].snippet_ids = <<"s1">>


(***************************************************************************)
(* Specification of the ATS score: one call of calculate_ats_score.        *)
(***************************************************************************)
InitAts ==
    /\ helper_args \in AtsArguments
    /\ helper_result = NotReturned
    /\ PlanIdle
    /\ NormIdle
    /\ JsonIdle
    /\ PipeIdle
    /\ TaskIdle

CalculateAtsScore ==
    /\ helper_result = NotReturned
    /\ helper_result' =
          [status |-> "returned",
           value |-> calculate_ats_score(helper_args.bullet_points,
                                         helper_args.job_keywords,
                                         helper_args.required_skills,
                                         helper_args.preferred_skills)]
    /\ UNCHANGED helper_args
    /\ UNCHANGED <<planVars, normVars, jsonVars, pipeVars, taskVars>>

NextAts == CalculateAtsScore

SpecAts == InitAts /\ [][NextAts]_vars

\* the text the skills and keywords of the call are looked up in
AtsResumeText == Lower(JoinWithSpace(helper_args.bullet_points))

(***************************************************************************)
(* C13: calculate_ats_score returns overall_score = 0.60*R + 0.30*K +      *)
(* 0.10*P (to the one decimal the result is rounded to), R being the share *)
(* of applicable required skills matched and 100 when there is none, K the *)
(* share of job keywords matched, P the share of applicable preferred      *)
(* skills matched and 0 when there is none, for every combination of empty *)
(* and non-empty keyword, required and preferred lists.                    *)
(* Refuted: with no keyword and no required skill the code returns 0       *)
(* before it computes anything (services.py 2247-2256), where the formula  *)
(* gives 60 or more.                                                       *)
(***************************************************************************)
C13_ScoreIsWeightedSum ==
    helper_result.status = "returned" =>
        FractionEqual(
            helper_result.value.overall_score,
            Round1(WeightedScore(
                required_match_pct(helper_args.required_skills, AtsResumeText),
                keyword_match_pct(helper_args.job_keywords, AtsResumeText),
                preferred_match_pct(helper_args.preferred_skills, AtsResumeText))))

(***************************************************************************)
(* C14: for all bullet lists, keyword lists, required-skill lists and      *)
(* preferred-skill lists the overall_score returned by                     *)
(* calculate_ats_score is at least 0 and at most 100.                      *)
(***************************************************************************)
C14_ScoreWithinBounds ==
    helper_result.status = "returned" =>
        /\ ~FractionLess(helper_result.value.overall_score, Fraction(0, 1))
        /\ ~FractionLess(Fraction(100, 1), helper_result.value.overall_score)

\* every list is given and every keyword and skill is found: the score is
\* the upper end of the range
C14_Witness ==
    /\ helper_result.status = "returned"
    /\ helper_args.required_skills # <<>>
    /\ helper_args.job_keywords # <<>>
    /\ helper_args.preferred_skills # <<>>
    /\ FractionEqual(helper_result.value.overall_score, Fraction(100, 1))


(***************************************************************************)
(* Specification of the bullet validator: one call of                      *)
(* validate_bullet_point.                                                  *)
(***************************************************************************)
InitValidator ==
    /\ helper_args \in ValidatorArguments
    /\ helper_result = NotReturned
    /\ PlanIdle
    /\ NormIdle
    /\ JsonIdle
    /\ PipeIdle
    /\ TaskIdle

ValidateBulletPoint ==
    /\ helper_result = NotReturned
    /\ helper_result' = validate_bullet_point(helper_args.bullet)
    /\ UNCHANGED helper_args
    /\ UNCHANGED <<planVars, normVars, jsonVars, pipeVars, taskVars>>

NextValidator == ValidateBulletPoint

SpecValidator == InitValidator /\ [][NextValidator]_vars

\* the first word of the bullet of the call, as the claim reads it
FirstWordOfBullet ==
    IF SplitWords(helper_args.bullet) = <<>> THEN <<>>
    ELSE RStripPunctuation(Lower(SplitWords(helper_args.bullet)[1]))

\* one of the five defects C15 lists
BulletHasDefect ==
    \/ Len(helper_args.bullet) < MIN_BULLET_CHARS
    \/ Len(helper_args.bullet) > MAX_BULLET_CHARS
    \/ ~StartsWithCapital(helper_args.bullet)
    \/ FirstWordOfBullet \notin action_verbs
    \/ ~(has_number(helper_args.bullet) \/ has_percent(helper_args.bullet)
            \/ has_dollar(helper_args.bullet))

(***************************************************************************)
(* C15: validate_bullet_point reports valid = false whenever the bullet is *)
(* shorter than 50 characters, or longer than 220, or does not start with  *)
(* a capital letter, or its first word is not a recognized action verb, or *)
(* it contains no numeral, percentage or currency token; and valid = true  *)
(* only when none of these holds.                                          *)
(* Refuted: a bullet without any metric only gets a suggestion             *)
(* (services.py 2444-2445) and is reported valid; a bullet of white space  *)
(* makes the call raise IndexError (services.py 2420).                     *)
(***************************************************************************)
C15_ValidIffNoDefect ==
    helper_result # NotReturned =>
        /\ helper_result.status = "returned"
        /\ helper_result.value.valid <=> ~BulletHasDefect


(***************************************************************************)
(* Specification of requirement extraction: one call of                    *)
(* _extract_job_requirements.                                              *)
(***************************************************************************)
InitExtraction ==
    /\ helper_args \in ExtractionArguments
    /\ helper_result = NotReturned
    /\ PlanIdle
    /\ NormIdle
    /\ JsonIdle
    /\ PipeIdle
    /\ TaskIdle

ExtractJobRequirements ==
    /\ helper_result = NotReturned
    /\ \E requirements \in _extract_job_requirements(helper_args.job_description) :
          helper_result' = [status |-> "returned", value |-> requirements]
    /\ UNCHANGED helper_args
    /\ UNCHANGED <<planVars, normVars, jsonVars, pipeVars, taskVars>>

NextExtraction == ExtractJobRequirements

SpecExtraction == InitExtraction /\ [][NextExtraction]_vars

(***************************************************************************)
(* C16: for the one-line description "Required: Python, SQL.               *)
(* Responsibilities: Build ETL pipelines." the returned required_skills    *)
(* hold python and sql and the returned keywords hold python and sql: a    *)
(* line that carries content together with a section-header word still     *)
(* contributes its content.                                                *)
(* Refuted: the line holds "responsibil", so it is taken for a header and  *)
(* skipped whole (services.py 1436-1440).                                  *)
(***************************************************************************)
C16_HeaderLineContributes ==
    (helper_result.status = "returned"
        /\ helper_args.job_description = ExampleDescription) =>
        /\ {<<"p", "y", "t", "h", "o", "n">>, <<"s", "q", "l">>}
              \subseteq Range(helper_result.value.required_skills)
        /\ {<<"p", "y", "t", "h", "o", "n">>, <<"s", "q", "l">>}
              \subseteq Range(helper_result.value.keywords)

\* a list without a duplicate whose items stand in the order of str
SortedWithoutDuplicate(items) ==
    \A i \in 1..(Len(items) - 1) : StrLess(items[i], items[i + 1])

(***************************************************************************)
(* C17: every list of the record returned by _extract_job_requirements     *)
(* (required_skills, preferred_skills, skills, qualifications,             *)
(* responsibilities, keywords, certifications, action_verbs,               *)
(* years_experience, education) has no duplicate and is sorted.            *)
(* Refuted: qualifications and responsibilities are returned as appended   *)
(* (services.py 1473, 1482), and education in the order of a set           *)
(* (services.py 1504).                                                     *)
(***************************************************************************)
C17_ListsSortedWithoutDuplicate ==
    helper_result.status = "returned" =>
        /\ SortedWithoutDuplicate(helper_result.value.required_skills)
        /\ SortedWithoutDuplicate(helper_result.value.preferred_skills)
        /\ SortedWithoutDuplicate(helper_result.value.skills)
        /\ SortedWithoutDuplicate(helper_result.value.qualifications)
        /\ SortedWithoutDuplicate(helper_result.value.responsibilities)
        /\ SortedWithoutDuplicate(helper_result.value.keywords)
        /\ SortedWithoutDuplicate(helper_result.value.certifications)
        /\ SortedWithoutDuplicate(helper_result.value.action_verbs)
        /\ SortedWithoutDuplicate(helper_result.value.years_experience)
        /\ SortedWithoutDuplicate(helper_result.value.education)


(***************************************************************************)
(* Specification of bucket inference: one call of                          *)
(* _infer_bucket_from_entry.                                               *)
(***************************************************************************)
InitBucket ==
    /\ helper_args \in BucketArguments
    /\ helper_result = NotReturned
    /\ PlanIdle
    /\ NormIdle
    /\ JsonIdle
    /\ PipeIdle
    /\ TaskIdle

InferBucket ==
    /\ helper_result = NotReturned
    /\ helper_result' = [status |-> "returned",
                         value |-> _infer_bucket_from_entry(helper_args.entry)]
    /\ UNCHANGED helper_args
    /\ UNCHANGED <<planVars, normVars, jsonVars, pipeVars, taskVars>>

NextBucket == InferBucket

SpecBucket == InitBucket /\ [][NextBucket]_vars

(***************************************************************************)
(* Specification of snippet selection: one call of                         *)
(* _collect_experience_snippets.                                           *)
(***************************************************************************)
InitCollect ==
    /\ helper_args \in CollectArguments
    /\ helper_result = NotReturned
    /\ PlanIdle
    /\ NormIdle
    /\ JsonIdle
    /\ PipeIdle
    /\ TaskIdle

CollectExperienceSnippets ==
    /\ helper_result = NotReturned
    /\ helper_result' =
          [status |-> "returned",
           value |-> _collect_experience_snippets(helper_args.experience_graph,
                                                  helper_args.requirements,
                                                  helper_args.limit_per_bucket)]
    /\ UNCHANGED helper_args
    /\ UNCHANGED <<planVars, normVars, jsonVars, pipeVars, taskVars>>

NextCollect == CollectExperienceSnippets

SpecCollect == InitCollect /\ [][NextCollect]_vars

\* the snippets built from the graph of the call, in the order of its entries
BuiltSnippets ==
    LET scored == ScoredSnippets(raw_entries(helper_args.experience_graph),
                                 helper_args.requirements)
    IN  [i \in 1..Len(scored) |-> scored[i].snippet]

\* the skills of a snippet that are required skills, as the score counts them
RequiredSkillsOf(snippet) ==
    LowerSet(snippet.skills) \cap LowerSet(helper_args.requirements.required_skills)

\* more is less but for its skills, among which there is one more required
\* skill and nothing else is different
OneMoreRequiredSkill(less, more) ==
    /\ less.bucket = more.bucket
    /\ less.title = more.title
    /\ less.achievements = more.achievements
    /\ less.source_ref.current = more.source_ref.current
    /\ LowerSet(less.skills) \subseteq LowerSet(more.skills)
    /\ Cardinality(LowerSet(more.skills)) = Cardinality(LowerSet(less.skills)) + 1
    /\ Cardinality(RequiredSkillsOf(more)) = Cardinality(RequiredSkillsOf(less)) + 1

\* the place of a snippet in the returned list of its bucket, 0 when it was
\* not selected
PlaceOf(snippet) ==
    LET selected == helper_result.value
        InList(b, k) == selected[b].snippets[k].snippet_id = snippet.snippet_id
    IN  IF \E b \in 1..Len(selected) : \E k \in 1..Len(selected[b].snippets) : InList(b, k)
        THEN CHOOSE k \in 1..MaxEntries :
                \E b \in 1..Len(selected) :
                    k <= Len(selected[b].snippets) /\ InList(b, k)
        ELSE 0

(***************************************************************************)
(* C18: of two snippets of one bucket that are identical but for one more  *)
(* skill overlapping the required skills, _score_snippet gives the one     *)
(* with the extra skill a strictly higher score, and                       *)
(* _collect_experience_snippets places it earlier in the bucket's list,    *)
(* whichever of the two came first in the graph: when the other one is     *)
(* selected it is selected too and stands before it.                       *)
(***************************************************************************)
C18_ExtraRequiredSkillRanksFirst ==
    helper_result.status = "returned" =>
        LET built == BuiltSnippets
        IN  \A i, j \in 1..Len(built) :
                OneMoreRequiredSkill(built[i], built[j]) =>
                    /\ FractionLess(_score_snippet(built[i], helper_args.requirements),
                                    _score_snippet(built[j], helper_args.requirements))
                    /\ PlaceOf(built[i]) # 0 =>
                          /\ PlaceOf(built[j]) # 0
                          /\ PlaceOf(built[j]) < PlaceOf(built[i])

\* the snippet with the extra skill came later in the graph and is returned
\* before the other one
C18_Witness ==
    /\ helper_result.status = "returned"
    /\ LET built == BuiltSnippets
       IN  \E i, j \in 1..Len(built) :
              /\ i < j
              /\ OneMoreRequiredSkill(built[i], built[j])
              /\ PlaceOf(built[j]) = 1
              /\ PlaceOf(built[i]) = 2

\* the entry of the call carries a tag: a bucket or a type
EntryIsTagged == helper_args.entry.bucket # <<>> \/ helper_args.entry.type # <<>>

(***************************************************************************)
(* C19: when an entry carries an explicit type or bucket tag,              *)
(* _infer_bucket_from_entry decides from the tag alone, whatever the title *)
(* (an entry tagged work is Professional Experience); the title heuristics *)
(* are used only when there is no tag.                                     *)
(* Refuted: a tag that names none of lead, project, skill falls through to *)
(* the title heuristics (services.py 1624-1628).                           *)
(***************************************************************************)
C19_TagDecidesAlone ==
    (helper_result.status = "returned" /\ EntryIsTagged) =>
        helper_result.value =
            _infer_bucket_from_entry([helper_args.entry EXCEPT !.title = <<>>])


\* the floor of max_output_tokens as C20 gives it
FloorOfClaim(bullets_per_section, num_sections) ==
    IF num_sections >= 3 /\ bullets_per_section >= 4 THEN MANY_SECTIONS_MIN_TOKENS
    ELSE IF bullets_per_section >= 5 THEN MANY_BULLETS_MIN_TOKENS
    ELSE BASE_MIN_TOKENS

(***************************************************************************)
(* C20: for any input normalize_parameters returns, without an error, a    *)
(* set in which bullets_per_section is an integer >= 1, stretch_level is   *)
(* an integer in 0..3 and max_output_tokens lies between the floor (2500;  *)
(* 3000 when bullets_per_section >= 5; 3500 with at least 3 sections and   *)
(* bullets_per_section >= 4) and the ceiling 6500, the floor never         *)
(* decreasing when the sections or bullets_per_section grow.               *)
(* Refuted: int() of an infinite float raises OverflowError, which the     *)
(* handlers of services.py 1243-1246, 1253-1258 and 1267-1270 do not       *)
(* catch.                                                                  *)
(***************************************************************************)
C20_NormalizedWithinBounds ==
    normalized # NotNormalized =>
        /\ normalized.status = "ok"
        /\ normalized.value.bullets_per_section.t = "int"
        /\ normalized.value.bullets_per_section.v >= 1
        /\ normalized.value.stretch_level.t = "int"
        /\ normalized.value.stretch_level.v \in 0..3
        /\ normalized.value.max_output_tokens.t = "int"
        /\ normalized.value.max_output_tokens.v >=
              FloorOfClaim(normalized.value.bullets_per_section.v,
                           Len(normalized.value.sections.v))
        /\ normalized.value.max_output_tokens.v <= ABSOLUTE_MAX_TOKENS
        /\ \A b \in 1..6, n \in 0..4 :
              /\ MinTokens(b, n) = FloorOfClaim(b, n)
              /\ MinTokens(b, n) <= MinTokens(b + 1, n)
              /\ MinTokens(b, n) <= MinTokens(b, n + 1)

(***************************************************************************)
(* Specification of the session lifecycle: a session created by            *)
(* tailoring_create with its first task dispatched, further task           *)
(* invocations dispatched by the rescue, requests to the detail view, and  *)
(* the clock.  The transaction of tasks.py 43-61 holds the row lock, so    *)
(* the claim is one step.                                                  *)
(***************************************************************************)
InitTask ==
    /\ db_session = NewSession
    /\ db_user \in {NewUser(quota) : quota \in 1..MaxQuota}
    /\ threads = [t \in Workers \cup Viewers |->
                    IF t = <<"task", 1>> THEN ThreadAt("queued", "PENDING")
                    ELSE ThreadAt("unstarted", "none")]
    /\ now = 0
    /\ PlanIdle
    /\ NormIdle
    /\ JsonIdle
    /\ PipeIdle
    /\ HelperIdle

\* tasks.py 42-61: the task returns on PROCESSING or COMPLETED and claims
\* the session otherwise
ClaimSession(t) ==
    /\ threads[t].pc = "queued"
    /\ IF db_session.status \in {"PROCESSING", "COMPLETED"}
       THEN /\ threads' = [threads EXCEPT ![t].pc = "done", ![t].copy = db_session]
            /\ UNCHANGED db_session
       ELSE /\ db_session' = ClaimedRow(db_session, now)
            /\ threads' = [threads EXCEPT ![t].pc = "claimed",
                                          ![t].copy = ClaimedRow(db_session, now),
                                          ![t].did = @ \cup {"claim"}]
    /\ UNCHANGED <<db_user, now>>
    /\ UNCHANGED <<planVars, normVars, jsonVars, pipeVars, helperVars>>

\* tasks.py 63-113: the pipeline runs and returns, raises
\* TailoringPipelineError or raises something else
RunWorkflow(t) ==
    /\ threads[t].pc = "claimed"
    /\ \/ \E result \in PipelineResults :
            threads' = [threads EXCEPT ![t].pc = "returned", ![t].result = result,
                                       ![t].did = @ \cup {"run"}]
       \/ threads' = [threads EXCEPT ![t].pc = "failing", ![t].did = @ \cup {"run"}]
       \/ threads' = [threads EXCEPT ![t].pc = "crashing", ![t].did = @ \cup {"run"}]
    /\ UNCHANGED <<db_session, db_user, now>>
    /\ UNCHANGED <<planVars, normVars, jsonVars, pipeVars, helperVars>>

\* tasks.py 115-202: the result is saved with status COMPLETED
SaveCompleted(t) ==
    /\ threads[t].pc = "returned"
    /\ db_session' = CompletedRow(db_session, threads[t].result, now)
    /\ threads' = [threads EXCEPT ![t].pc = "saved",
                                  ![t].copy = CompletedRow(@, threads[t].result, now),
                                  ![t].did = @ \cup {"save"}]
    /\ UNCHANGED <<db_user, now>>
    /\ UNCHANGED <<planVars, normVars, jsonVars, pipeVars, helperVars>>

\* tasks.py 204-227: total_tokens = max(0, total_tokens) is recorded
RecordUsage(t) ==
    /\ threads[t].pc = "saved"
    /\ db_user' = record_usage(db_user, Max(0, threads[t].result.tokens))
    /\ threads' = [threads EXCEPT ![t].pc = "done", ![t].did = @ \cup {"charge"}]
    /\ UNCHANGED <<db_session, now>>
    /\ UNCHANGED <<planVars, normVars, jsonVars, pipeVars, helperVars>>

\* tasks.py 229-240
FailPipeline(t) ==
    /\ threads[t].pc = "failing"
    /\ db_session' = FailedRow(db_session, "pipeline", now)
    /\ threads' = [threads EXCEPT ![t].pc = "done", ![t].did = @ \cup {"fail"}]
    /\ UNCHANGED <<db_user, now>>
    /\ UNCHANGED <<planVars, normVars, jsonVars, pipeVars, helperVars>>

\* tasks.py 244-261: the session is marked failed and the exception is
\* raised again
FailUnexpected(t) ==
    /\ threads[t].pc = "crashing"
    /\ db_session' = FailedRow(db_session, "unexpected", now)
    /\ threads' = [threads EXCEPT ![t].pc = "reraised", ![t].did = @ \cup {"fail"}]
    /\ UNCHANGED <<db_user, now>>
    /\ UNCHANGED <<planVars, normVars, jsonVars, pipeVars, helperVars>>

\* run_task (frontend_views.py 276-283): the session is loaded again
RecoverLoad(t) ==
    /\ threads[t].pc = "reraised"
    /\ threads' = [threads EXCEPT
                     ![t].pc = IF db_session.status \in {"COMPLETED", "FAILED"}
                               THEN "done" ELSE "marking",
                     ![t].copy = db_session]
    /\ UNCHANGED <<db_session, db_user, now>>
    /\ UNCHANGED <<planVars, normVars, jsonVars, pipeVars, helperVars>>

\* run_task (frontend_views.py 283-284)
RecoverMark(t) ==
    /\ threads[t].pc = "marking"
    /\ db_session' = _mark_session_failed(db_session, "dispatch", now)
    /\ threads' = [threads EXCEPT ![t].pc = "done"]
    /\ UNCHANGED <<db_user, now>>
    /\ UNCHANGED <<planVars, normVars, jsonVars, pipeVars, helperVars>>

\* tailoring_detail (frontend_views.py 51)
LoadDetail(t) ==
    /\ threads[t].pc = "unstarted"
    /\ threads' = [threads EXCEPT ![t].pc = "loaded", ![t].copy = db_session]
    /\ UNCHANGED <<db_session, db_user, now>>
    /\ UNCHANGED <<planVars, normVars, jsonVars, pipeVars, helperVars>>

\* tailoring_detail (frontend_views.py 54-58)
AutoComplete(t) ==
    /\ threads[t].pc = "loaded"
    /\ IF AutoCompleted(threads[t].copy)
       THEN /\ db_session' = [db_session EXCEPT !.status = "COMPLETED"]
            /\ threads' = [threads EXCEPT ![t].pc = "checked",
                                          ![t].copy.status = "COMPLETED"]
       ELSE /\ threads' = [threads EXCEPT ![t].pc = "checked"]
            /\ UNCHANGED db_session
    /\ UNCHANGED <<db_user, now>>
    /\ UNCHANGED <<planVars, normVars, jsonVars, pipeVars, helperVars>>

\* _rescue_stuck_session (frontend_views.py 213-252) with
\* _dispatch_tailoring_task (255-292): a stale pending session gets one
\* more task invocation, a stale processing session is marked failed
RescueStuckSession(t) ==
    /\ threads[t].pc = "checked"
    /\ IF PendingIsStale(threads[t].copy, now)
       THEN /\ \E w \in Workers :
                 /\ threads[w].pc = "unstarted"
                 /\ threads' = [threads EXCEPT
                                  ![w] = ThreadAt("queued", db_session.status),
                                  ![t].pc = "done"]
            /\ UNCHANGED db_session
       ELSE IF ProcessingIsStale(threads[t].copy, now)
       THEN /\ db_session' = _mark_session_failed(db_session, "timeout", now)
            /\ threads' = [threads EXCEPT ![t].pc = "done"]
       ELSE /\ threads' = [threads EXCEPT ![t].pc = "done"]
            /\ UNCHANGED db_session
    /\ UNCHANGED <<db_user, now>>
    /\ UNCHANGED <<planVars, normVars, jsonVars, pipeVars, helperVars>>

\* time passes
Tick ==
    /\ now < MaxClock
    /\ now' = now + 1
    /\ UNCHANGED <<db_session, db_user, threads>>
    /\ UNCHANGED <<planVars, normVars, jsonVars, pipeVars, helperVars>>

NextTask ==
    \/ Tick
    \/ \E t \in Workers :
         \/ ClaimSession(t)
         \/ RunWorkflow(t)
         \/ SaveCompleted(t)
         \/ RecordUsage(t)
         \/ FailPipeline(t)
         \/ FailUnexpected(t)
         \/ RecoverLoad(t)
         \/ RecoverMark(t)
    \/ \E t \in Viewers :
         \/ LoadDetail(t)
         \/ AutoComplete(t)
         \/ RescueStuckSession(t)

SpecTask == InitTask /\ [][NextTask]_vars

\* the task invocations dispatched while the session's row was PENDING
PendingInvocations == {t \in Workers : threads[t].seen = "PENDING"}

(***************************************************************************)
(* C21: of the invocations of process_tailoring_session made on one        *)
(* PENDING session, one moves it to PROCESSING and runs the pipeline, and  *)
(* every other one returns without running the pipeline and without        *)
(* writing the session.                                                    *)
(* Refuted: the task returns early on PROCESSING and COMPLETED only, so an *)
(* invocation that starts after the first one failed claims the session    *)
(* again and runs the pipeline a second time.                              *)
(***************************************************************************)
C21_OneInvocationRuns ==
    \A t, u \in PendingInvocations :
        (t # u /\ "run" \in threads[t].did) => threads[u].did = {}

(***************************************************************************)
(* C27: for one session the pipeline result is saved at most once and      *)
(* user.record_usage is executed at most once.                             *)
(* Refuted: after a stale processing session is marked FAILED a second     *)
(* invocation claims it, and both invocations save and record usage.       *)
(***************************************************************************)
C27_ChargedAtMostOnce ==
    /\ Cardinality({t \in Workers : "save" \in threads[t].did}) <= 1
    /\ Cardinality({t \in Workers : "charge" \in threads[t].did}) <= 1

(***************************************************************************)
(* C28: the status moves only along PENDING -> PROCESSING -> COMPLETED or  *)
(* FAILED; COMPLETED is final, and a session marked FAILED by the          *)
(* processing timeout is not turned into COMPLETED afterwards.             *)
(* Refuted: every save writes its status whatever the row holds by then.   *)
(***************************************************************************)
C28_StatusMovesForward ==
    [][\/ db_session'.status = db_session.status
       \/ db_session.status = "PENDING" /\ db_session'.status = "PROCESSING"
       \/ /\ db_session.status = "PROCESSING"
          /\ db_session'.status \in {"COMPLETED", "FAILED"}]_vars

(***************************************************************************)
(* Specification of the token quota: callers of check_and_increment_tokens *)
(* (tailoring/views.py 70, 207), each with the user object of its request, *)
(* and calls of record_usage (tasks.py 224-227).                           *)
(***************************************************************************)
InitQuota ==
    /\ db_session = NotLoaded
    /\ db_user \in {[tokens_used |-> used, token_quota |-> quota] :
                       quota \in 1..MaxQuota, used \in 0..MaxQuota}
    /\ db_user.tokens_used <= db_user.token_quota
    /\ threads = [t \in Callers |-> CallerAt("idle")]
    /\ now = 0
    /\ PlanIdle
    /\ NormIdle
    /\ JsonIdle
    /\ PipeIdle
    /\ HelperIdle

\* the request's user object is loaded
LoadUser(t) ==
    /\ threads[t].pc = "idle"
    /\ threads' = [threads EXCEPT ![t].pc = "loaded", ![t].copy = db_user]
    /\ UNCHANGED <<db_session, db_user, now>>
    /\ UNCHANGED <<planVars, normVars, jsonVars, pipeVars, helperVars>>

\* check_and_increment_tokens (accounts/utils.py 8-23)
CheckAndIncrementTokens(t) ==
    /\ threads[t].pc = "loaded"
    /\ \E cost \in 1..MaxCost :
         IF QuotaExceeded(threads[t].copy, cost)
         THEN /\ threads' = [threads EXCEPT ![t].pc = "PermissionError",
                                            ![t].cost = cost,
                                            ![t].before = db_user.tokens_used,
                                            ![t].after = db_user.tokens_used]
              /\ UNCHANGED db_user
         ELSE /\ db_user' = [db_user EXCEPT
                               !.tokens_used = Incremented(threads[t].copy, cost).tokens_used]
              /\ threads' = [threads EXCEPT
                               ![t].pc = "returned",
                               ![t].copy = Incremented(@, cost),
                               ![t].cost = cost,
                               ![t].before = db_user.tokens_used,
                               ![t].after = Incremented(threads[t].copy, cost).tokens_used]
    /\ UNCHANGED <<db_session, now>>
    /\ UNCHANGED <<planVars, normVars, jsonVars, pipeVars, helperVars>>

\* User.record_usage (accounts/models.py 47-64) called by the task
RecordUsageOf(t) ==
    /\ threads[t].pc = "idle"
    /\ \E tokens \in 0..MaxCost :
         /\ db_user' = record_usage(db_user, tokens)
         /\ threads' = [threads EXCEPT ![t].pc = "recorded", ![t].cost = tokens,
                                       ![t].before = db_user.tokens_used,
                                       ![t].after = record_usage(db_user, tokens).tokens_used]
    /\ UNCHANGED <<db_session, now>>
    /\ UNCHANGED <<planVars, normVars, jsonVars, pipeVars, helperVars>>

NextQuota ==
    \E t \in Callers :
        \/ LoadUser(t)
        \/ CheckAndIncrementTokens(t)
        \/ RecordUsageOf(t)

SpecQuota == InitQuota /\ [][NextQuota]_vars

(***************************************************************************)
(* C30: after any calls of check_and_increment_tokens and record_usage on  *)
(* a user, tokens_used never exceeds token_quota; a call of                *)
(* check_and_increment_tokens that raises PermissionError leaves           *)
(* tokens_used as it was and a call that returns has raised it by its      *)
(* cost.                                                                   *)
(* Refuted: record_usage adds its tokens without looking at the quota, and *)
(* check_and_increment_tokens writes the sum computed on the caller's own  *)
(* user object.                                                            *)
(***************************************************************************)
C30_QuotaHolds ==
    /\ db_user.tokens_used <= db_user.token_quota
    /\ \A t \in Callers :
         /\ threads[t].pc = "PermissionError" => threads[t].after = threads[t].before
         /\ threads[t].pc = "returned"
              => threads[t].after = threads[t].before + threads[t].cost

\* the step of _generate_resume_package that applies the replacements of
\* the regeneration reply (services.py 769-783) and goes on
ReplacementStep == pc = "regenerate" /\ pc' \in {"cover", "returned"}

(***************************************************************************)
(* C22: applying the guardrail replacements changes only the text of the   *)
(* bullet details whose id is the bullet_id of a replacement; every other  *)
(* detail is as before and there are as many details after as before,      *)
(* also when several details share one id.                                 *)
(* Refuted: the details go through a dict keyed by id (services.py 770,    *)
(* 780), which keeps one detail for each id.                               *)
(***************************************************************************)
C22_ReplacementsKeepDetails ==
    [][ReplacementStep =>
         /\ Len(bullet_details') = Len(bullet_details)
         /\ \A i \in 1..Len(bullet_details) :
              /\ [bullet_details'[i] EXCEPT !.text = bullet_details[i].text]
                    = bullet_details[i]
              /\ bullet_details'[i] # bullet_details[i]
                    => \E k \in 1..Len(flagged) :
                          flagged[k].bullet_id = bullet_details[i].id]_vars

\* no replacement of the step has an empty text
NoTextEmptied ==
    \A i \in 1..Len(bullet_details') : bullet_details'[i].text # EmptyText

\* no two details of the step have one id
NoSharedId ==
    \A i, j \in 1..Len(bullet_details) :
        bullet_details[i].id = bullet_details[j].id => i = j

\* every section of the list holds a bullet before the step
NoEmptySection == \A i \in 1..Len(sections) : sections[i].bullets # <<>>

(***************************************************************************)
(* C23: after the guardrail replacements the section list has the same     *)
(* sections in the same order as before the replacement step, and in each  *)
(* section the bullets are at their places, only replaced texts differing. *)
(* It is checked for replacements with a text, made to details that each  *)
(* have an id of their own, in a list without an empty section: an empty   *)
(* text removes its bullet, details sharing an id are merged and a section *)
(* without bullets is not rebuilt.                                         *)
(* Refuted: the list is rebuilt from the details alone, sorted by their    *)
(* section_index (services.py 1835-1858), which is the place in the reply  *)
(* or after it, not the place the reordering gave the section.            *)
(***************************************************************************)
C23_ReplacementsKeepLayout ==
    [][(ReplacementStep /\ NoTextEmptied /\ NoSharedId /\ NoEmptySection) =>
         /\ Len(sections') = Len(sections)
         /\ \A i \in 1..Len(sections) :
              /\ sections'[i].name = sections[i].name
              /\ Len(sections'[i].bullets) = Len(sections[i].bullets)
              /\ \A j \in 1..Len(sections[i].bullets) :
                    \/ sections'[i].bullets[j] = sections[i].bullets[j]
                    \/ sections'[i].bullets[j] = RegenText]_vars

(***************************************************************************)
(* C29: in the result of _generate_resume_package the flat bullet list is  *)
(* the concatenation, in final section order, of the bullet lists of the   *)
(* final sections, also after a backfill of a section that is not the last *)
(* one, after a reordering and after guardrail replacements.               *)
(* Refuted: the bullets of a backfill are appended to the end of the flat  *)
(* list (services.py 879) and the reordering leaves the flat list alone.   *)
(***************************************************************************)
C29_FlatListFollowsSections ==
    outcome.status = "returned" => outcome.bullets = _flatten_sections(outcome.sections)

\* the first reply was parsed and no replacement has rebuilt the sections
ValidationVisible ==
    /\ pc \in {"backfill", "audit", "regenerate", "cover", "returned"}
    /\ \A k \in 1..Len(exchanges) : exchanges[k].kind # "regenerate"

\* the bullets a section held after the initial generation: those the first
\* reply wrote
InitialCount(section) ==
    Cardinality({j \in 1..Len(section.bullets) : section.bullets[j].src = "gen"})

\* the backfills made and still to be made, as <<section, bullets asked for>>
BackfillsOf(section_name) ==
    LET made == SelectSeq(exchanges,
                    LAMBDA e : e.kind = "backfill" /\ e.section = section_name)
        pending == SelectSeq(sections_to_fix, LAMBDA f : f.name = section_name)
    IN  [k \in 1..Len(made) |-> made[k].bullet_count]
            \o [k \in 1..Len(pending) |->
                    NeededBullets(pending[k], request.bullets_per_section)]

RequiredSkillsHeader ==
    <<"R", "e", "q", "u", "i", "r", "e", "d", " ", "s", "k", "i", "l", "l", "s", ":">>

PreferredSkillsHeader ==
    <<"P", "r", "e", "f", "e", "r", "r", "e", "d", " ", "s", "k", "i", "l", "l", "s", ":">>

DockerPreferred ==
    <<"D", "o", "c", "k", "e", "r", " ", "p", "r", "e", "f", "e", "r", "r", "e", "d">>

PythonRequired ==
    <<"P", "y", "t", "h", "o", "n", " ", "r", "e", "q", "u", "i", "r", "e", "d">>

(***************************************************************************)
(* C26: in _extract_job_requirements a cue on the line wins over the flag  *)
(* of the section: under "Required skills:" the keywords of the line       *)
(* "Docker preferred" are put in preferred_skills and not in               *)
(* required_skills, and under "Preferred skills:" the keywords of the line *)
(* "Python required" are put in required_skills.                           *)
(* Refuted: a line holding "preferred", "nice to have", "bonus" or "plus"  *)
(* is taken for a header and skipped (services.py 1451-1454), so its       *)
(* keywords are put nowhere.                                               *)
(***************************************************************************)
C26_LineCueWins ==
    helper_result.status = "returned" =>
        /\ helper_args.job_description
                = JoinLinesOf(<<RequiredSkillsHeader, DockerPreferred>>)
              => /\ <<"d", "o", "c", "k", "e", "r">>
                        \in Range(helper_result.value.preferred_skills)
                 /\ <<"d", "o", "c", "k", "e", "r">>
                        \notin Range(helper_result.value.required_skills)
        /\ helper_args.job_description
                = JoinLinesOf(<<PreferredSkillsHeader, PythonRequired>>)
              => <<"p", "y", "t", "h", "o", "n">>
                    \in Range(helper_result.value.required_skills)

\* the buckets named by the requested names before position i
ExactlyMatchedBefore(i) ==
    {k \in 1..Len(selected_snippets) :
        \E j \in 1..(i - 1) : layout[j] = selected_snippets[k].bucket}

\* no snippet id occurs twice among the selected snippets
DistinctSnippetIds ==
    LET ids == all_snippet_ids(selected_snippets)
    IN  \A a, b \in 1..Len(ids) : a # b => ids[a] # ids[b]

(***************************************************************************)
(* C24: in _plan_sections a requested name without a bucket of its name is *)
(* given the first bucket, in encounter order, that no earlier entry was   *)
(* assigned, and gets the full pool (use_full_pool) only when no such      *)
(* bucket remains. Stated for the first requested name without a bucket of *)
(* its own, every earlier name having taken the bucket of its name, and    *)
(* for snippet ids that occur once.                                        *)
(* Refuted: the fallback takes the bucket at bucket_index, which exact     *)
(* matches do not advance (services.py 1714-1717), so it takes a bucket an *)
(* earlier name already took, finds its snippets used and falls to the     *)
(* full pool (1747-1753) while an unassigned bucket remains.               *)
(***************************************************************************)
C24_FallbackTakesUnassignedBucket ==
    (plan.done /\ layout # <<>> /\ DistinctSnippetIds) =>
        \A i \in 1..Len(layout) :
            (/\ BucketGet(selected_snippets, layout[i]) = <<>>
             /\ \A j \in 1..(i - 1) : BucketGet(selected_snippets, layout[j]) # <<>>)
            => LET free == (1..Len(selected_snippets)) \ ExactlyMatchedBefore(i)
               IN  IF free # {}
                   THEN LET k == CHOOSE m \in free : \A n \in free : m <= n
                        IN  /\ ~plan.entries[i].use_full_pool
                            /\ plan.entries[i].snippet_ids
                                    = selected_snippets[k].snippets
                   ELSE /\ plan.entries[i].use_full_pool
                        /\ plan.entries[i].snippet_ids
                                = all_snippet_ids(selected_snippets)
====
